---------------------------- MODULE Spec2Model ----------------------------
(***************************************************************************)
(* A model of the NRF24 driver of nrf24-time-server (src/NRF24.py).        *)
(*                                                                         *)
(* The driver is a sequential object.  Every public method is one action;  *)
(* the action runs the whole method against a model of the transport (the *)
(* chip-enable line and the SPI exchange) and leaves, next to the new      *)
(* driver and chip state, the ordered list of line changes and bus         *)
(* exchanges the method made (log), its return value and the exception it  *)
(* raised, if any.                                                         *)
(*                                                                         *)
(* A method body is a chain of statements over a record m that holds the   *)
(* driver's fields, the chip and the observation of the running call.  A   *)
(* statement does nothing once m.exc is set: that is how a Python          *)
(* exception skips the rest of every enclosing method.                     *)
(***************************************************************************)
EXTENDS Integers, Sequences, FiniteSets, TLC

(***************************************************************************)
(* Constants of class NRF24.                                               *)
(***************************************************************************)
RF24_1MBPS == 0
RF24_2MBPS == 1
RF24_250KBPS == 2

ACK_PAYLOAD == -1
DYNAMIC_PAYLOAD == 0
MIN_PAYLOAD == 1
MAX_PAYLOAD == 32

W_REGISTER == 32
R_RX_PL_WID == 96
R_RX_PAYLOAD == 97
W_TX_PAYLOAD == 160
FLUSH_TX == 225
FLUSH_RX == 226
NOP == 255

CONFIG == 0
SETUP_AW == 3
SETUP_RETR == 4
RF_CH == 5
RF_SETUP == 6
STATUS == 7
RX_ADDR_P0 == 10
RX_ADDR_P1 == 11
TX_ADDR == 16
RX_PW_P0 == 17
RX_PW_P1 == 18
FIFO_STATUS == 23
DYNPD == 28
FEATURE == 29

EN_CRC == 8
CRCO == 4
PWR_UP == 2
PRIM_RX == 1

RF_DR_LOW == 32
RF_DR_HIGH == 8

RX_DR == 64
TX_DS == 32
MAX_RT == 16
TX_FULL == 1

FTX_FULL == 32
FTX_EMPTY == 16
FRX_FULL == 2
FRX_EMPTY == 1

DPL_P1 == 2
DPL_P0 == 1

EN_DPL == 4
EN_ACK_PAY == 2

(***************************************************************************)
(* Python's & and | on non-negative integers, bit by bit.                  *)
(***************************************************************************)
RECURSIVE BitAnd(_, _)
BitAnd(x, y) ==
    IF x = 0 \/ y = 0 THEN 0
    ELSE (IF x % 2 = 1 /\ y % 2 = 1 THEN 1 ELSE 0) + 2 * BitAnd(x \div 2, y \div 2)

RECURSIVE BitOr(_, _)
BitOr(x, y) ==
    IF x = 0 THEN y
    ELSE IF y = 0 THEN x
    ELSE (IF x % 2 = 1 \/ y % 2 = 1 THEN 1 ELSE 0) + 2 * BitOr(x \div 2, y \div 2)

\* x & ~mask for x >= 0: Python's ~mask is -mask-1, whose bits are those of
\* mask inverted at every position, so the result keeps x's bits outside mask.
BitClear(x, mask) == x - BitAnd(x, mask)

IsByte(b) == b \in 0..255

Min(a, b) == IF a <= b THEN a ELSE b


(***************************************************************************)
(* The state.  The first six are the fields of the NRF24 object; ce is the *)
(* level of the chip-enable GPIO; regs, irq, tx_fifo and rx_fifo are the   *)
(* chip behind the SPI bus; the rest describes the last call: the method   *)
(* (op), its integer argument (arg) or its sequence argument (data), the   *)
(* line changes and bus exchanges it made (log), what it returned (ret,    *)
(* ret_data), the exception it raised (exc).  transition is the last mode  *)
(* transition method that ran, calls_left the calls the client still makes.*)
(* fail_at is the transport call of the last method call that was set to   *)
(* fail (0: none).                                                         *)
(***************************************************************************)
VARIABLES _channel, _payload_size, _address_width, _crc_bytes, _padding,
          _power_tx, ce, regs, irq, tx_fifo, rx_fifo,
          op, arg, data, log, ret, ret_data, exc, transition, calls_left,
          fail_at

nrf24 == <<_channel, _payload_size, _address_width, _crc_bytes, _padding,
           _power_tx, ce, regs, irq, tx_fifo, rx_fifo,
           op, arg, data, log, ret, ret_data, exc, transition, calls_left,
           fail_at>>

(***************************************************************************)
(* The time server (nrf24_timed.py).  _running, _pi and _nrf are the       *)
(* fields of the NRF24TimeServer object: _pi is the connection to the GPIO *)
(* daemon and _nrf the driver, each written as the number of the           *)
(* connection it is or uses (0: not set); connections counts the           *)
(* connections made so far and stopped holds those that were stopped.      *)
(* thread is the publishing thread: where it is in _run (pc), the driver   *)
(* whose send it is running (nrf) and the transport calls that send has    *)
(* made (io).  handler is the signal handler running in the main thread,   *)
(* signals_left the signals still to arrive.                               *)
(***************************************************************************)
VARIABLES _running, _pi, _nrf, connections, stopped, thread, handler,
          signals_left

server == <<_running, _pi, _nrf, connections, stopped, thread, handler,
            signals_left>>

(***************************************************************************)
(* The PID file (nrf24-time-server.py).  pid_files holds the lines of      *)
(* every file that was ever created at the path, each line a PID;          *)
(* pid_path is the one the path names now (0: none); pid_locks holds, for  *)
(* each file, the process whose open file holds the exclusive lock (0:     *)
(* none).  procs is, for each daemon process, where it is (pc), the file   *)
(* it has opened (fd) and the PID it read from it (pid, -1: none).         *)
(***************************************************************************)
VARIABLES pid_path, pid_files, pid_locks, procs

pidfile == <<pid_path, pid_files, pid_locks, procs>>

vars == <<nrf24, server, pidfile>>

(***************************************************************************)
(* Bounds of the model.                                                    *)
(***************************************************************************)
\* Calls of public methods after construction, by a client that uses all of
\* them.
MaxCalls == 2

\* Calls after construction, by a client that only sends and changes mode.
MaxTxCalls == 4

\* Sends after construction, by a client that polls is_sending without end.
MaxPollSends == 2

\* Signals the time server receives.
MaxSignals == 2

\* Daemon processes that are started on the same PID file.
MaxProcs == 2

\* Calls after construction, by a client whose transport may fail.
MaxFaultCalls == 1

\* The transport calls of one method call that may be the one to fail: the
\* longest method, send with a flush, makes seven.
MaxFailAt == 7

(***************************************************************************)
(* The chip, as far as the driver can observe it through the bus.          *)
(***************************************************************************)
\* Levels of each of the chip's two FIFOs.
FifoLevels == 3

\* The registers the driver reads or writes (STATUS and FIFO_STATUS are
\* derived from the interrupt flags and the FIFOs).
Registers == {CONFIG, SETUP_AW, SETUP_RETR, RF_CH, RF_SETUP, RX_ADDR_P0,
              RX_ADDR_P1, TX_ADDR, RX_PW_P0, RX_PW_P1, DYNPD, FEATURE}

\* The first n bytes of s, zero-filled when s is shorter.
Clocked(s, n) == [i \in 1..n |-> IF i <= Len(s) THEN s[i] ELSE 0]

\* The status byte shifted out first on every exchange: RX_DR, TX_DS and
\* MAX_RT in bits 6..4, the pipe of the payload at the head of the RX FIFO in
\* bits 3..1 (7: none), TX FIFO full in bit 0.
StatusByte(m) ==
    m.irq + 2 * (IF m.rx_fifo = <<>> THEN 7 ELSE 1)
          + (IF m.tx_fifo = FifoLevels THEN TX_FULL ELSE 0)

FifoStatusByte(m) ==
    (IF m.tx_fifo = FifoLevels THEN FTX_FULL ELSE 0)
    + (IF m.tx_fifo = 0 THEN FTX_EMPTY ELSE 0)
    + (IF Len(m.rx_fifo) = FifoLevels THEN FRX_FULL ELSE 0)
    + (IF m.rx_fifo = <<>> THEN FRX_EMPTY ELSE 0)

RegisterContent(m, a) ==
    IF a = STATUS THEN <<StatusByte(m)>>
    ELSE IF a = FIFO_STATUS THEN <<FifoStatusByte(m)>>
    ELSE IF a \in Registers THEN m.regs[a]
    ELSE <<>>

\* What the chip shifts out after the status byte while tx is shifted in.
ChipReply(m, tx) ==
    LET c == tx[1]
        n == Len(tx) - 1
    IN  IF c < W_REGISTER THEN Clocked(RegisterContent(m, c), n)
        ELSE IF c = R_RX_PL_WID
            THEN Clocked(IF m.rx_fifo = <<>> THEN <<0>> ELSE <<Len(Head(m.rx_fifo))>>, n)
        ELSE IF c = R_RX_PAYLOAD
            THEN Clocked(IF m.rx_fifo = <<>> THEN <<>> ELSE Head(m.rx_fifo), n)
        ELSE Clocked(<<>>, n)

\* The effect of the command tx on the chip.  Writing a 1 to RX_DR, TX_DS or
\* MAX_RT in STATUS clears that flag; reading a payload removes it from the
\* RX FIFO; writing one fills a level of the TX FIFO unless it is full.
ChipEffect(m, tx) ==
    LET c == tx[1]
        a == c - W_REGISTER
    IN  IF c >= W_REGISTER /\ c < 2 * W_REGISTER THEN
            IF a = STATUS /\ Len(tx) > 1
                THEN [m EXCEPT !.irq = BitClear(@, BitAnd(tx[2], RX_DR + TX_DS + MAX_RT))]
            ELSE IF a \in Registers /\ Len(tx) > 1
                THEN [m EXCEPT !.regs[a] = Tail(tx)]
            ELSE m
        ELSE IF c = R_RX_PAYLOAD
            THEN [m EXCEPT !.rx_fifo = IF @ = <<>> THEN @ ELSE Tail(@)]
        ELSE IF c = W_TX_PAYLOAD
            THEN [m EXCEPT !.tx_fifo = Min(FifoLevels, @ + 1)]
        ELSE IF c = FLUSH_TX THEN [m EXCEPT !.tx_fifo = 0]
        ELSE IF c = FLUSH_RX THEN [m EXCEPT !.rx_fifo = <<>>]
        ELSE m

(***************************************************************************)
(* The transport: pi.write on the chip-enable pin and pi.spi_xfer.  A      *)
(* call fails (pigpio raises) when it is the fail_at-th transport call of  *)
(* the running method; fail_at = 0 means that none fails.                  *)
(***************************************************************************)
\* An entry of log: a change of the chip-enable line to level v, or a bus
\* exchange of tx for rx made while the line was at level v.
Event(k, v, tx, rx) == [k |-> k, v |-> v, tx |-> tx, rx |-> rx]

CeEvent(level) == Event("ce", level, <<>>, <<>>)

Raise(m, e) == [m EXCEPT !.exc = e]

Fails(m) == m.fail_at # 0 /\ m.io + 1 = m.fail_at

pi_write(m, level) ==
    IF m.exc # "none" THEN m
    ELSE IF Fails(m) THEN [m EXCEPT !.io = @ + 1, !.exc = "TransportFailure"]
    ELSE [m EXCEPT !.io = @ + 1, !.ce = level, !.log = Append(@, CeEvent(level))]

\* spi_xfer that tries a failed exchange again, with success.
spi_xfer_retry(m, tx) ==
    IF m.exc # "none" THEN m
    ELSE IF \E i \in 1..Len(tx) : ~IsByte(tx[i]) THEN Raise(m, "ValueError")
    ELSE LET rx == <<StatusByte(m)>> \o ChipReply(m, tx)
             n  == ChipEffect(m, tx)
         IN  [n EXCEPT !.io = @ + 1, !.resp = rx,
                       !.log = Append(@, Event("xfer", m.ce, tx, rx))]

\* spi_xfer packs the request into a bytearray before anything is sent, which
\* raises ValueError for an element that is not a byte.
spi_xfer(m, tx) ==
    IF m.exc # "none" THEN m
    ELSE IF \E i \in 1..Len(tx) : ~IsByte(tx[i]) THEN Raise(m, "ValueError")
    ELSE IF Fails(m) THEN [m EXCEPT !.io = @ + 1, !.exc = "TransportFailure"]
    ELSE LET rx == <<StatusByte(m)>> \o ChipReply(m, tx)
             n  == ChipEffect(m, tx)
         IN  [n EXCEPT !.io = @ + 1, !.resp = rx,
                       !.log = Append(@, Event("xfer", m.ce, tx, rx))]

(***************************************************************************)
(* The driver's methods.  A method body is a sequence of statements:       *)
(* Bind(v, LAMBDA x : rest) is "x = v; rest", with v evaluated once.       *)
(* Then(m, n) is a statement that yields n, skipped when an exception is   *)
(* already on its way up.                                                  *)
(***************************************************************************)
Bind(v, rest(_)) == CHOOSE r \in {rest(x) : x \in {v}} : TRUE

Then(m, n) == IF m.exc # "none" THEN m ELSE n

Return(m, r) == Then(m, [m EXCEPT !.ret = r])

Truthy(x) == x # 0

set_ce(m) == pi_write(m, 1)

unset_ce(m) == pi_write(m, 0)

\* d of "b, d = spi_xfer(...)" is left in m.val.
_nrf_xfer(m, tx) ==
    Bind(spi_xfer(m, tx), LAMBDA n : Then(n, [n EXCEPT !.val = n.resp]))

\* The argument is a list here: the callers that pass a single opcode in the
\* source pass the one-element list the method would make of it.
_nrf_command(m, a) == _nrf_xfer(m, a)

\* _nrf_read_reg that returns the whole response, status byte included.
_nrf_read_reg_with_status(m, reg, count) ==
    _nrf_xfer(m, <<reg>> \o [i \in 1..count |-> 0])

_nrf_read_reg(m, reg, count) ==
    Bind(_nrf_xfer(m, <<reg>> \o [i \in 1..count |-> 0]),
         LAMBDA n : Then(n, [n EXCEPT !.val = Tail(@)]))

\* a is a list, as for _nrf_command.
_nrf_write_reg(m, reg, a) == _nrf_xfer(m, <<BitOr(W_REGISTER, reg)>> \o a)

get_status(m) == _nrf_command(m, <<NOP>>)

flush_rx(m) == _nrf_command(m, <<FLUSH_RX>>)

flush_tx(m) == _nrf_command(m, <<FLUSH_TX>>)

\* The mode transition that runs is noted in transition.
Enter(m, name) == Then(m, [m EXCEPT !.transition = name])

\* power_up_tx with chip-enable asserted before the status bits are cleared.
power_up_tx_ce_first(m) ==
    Bind(Enter(m, "power_up_tx"), LAMBDA m0 :
    Bind(unset_ce(m0), LAMBDA m1 :
    Bind(Then(m1, [m1 EXCEPT !._power_tx = 1]), LAMBDA m2 :
    Bind(_nrf_write_reg(m2, CONFIG,
             <<BitOr(BitOr(EN_CRC, m2._crc_bytes), PWR_UP)>>), LAMBDA m3 :
    Bind(set_ce(m3), LAMBDA m4 :
    _nrf_write_reg(m4, STATUS, <<BitOr(BitOr(RX_DR, TX_DS), MAX_RT)>>))))))

power_up_tx(m) ==
    Bind(Enter(m, "power_up_tx"), LAMBDA m0 :
    Bind(unset_ce(m0), LAMBDA m1 :
    Bind(Then(m1, [m1 EXCEPT !._power_tx = 1]), LAMBDA m2 :
    Bind(_nrf_write_reg(m2, CONFIG,
             <<BitOr(BitOr(EN_CRC, m2._crc_bytes), PWR_UP)>>), LAMBDA m3 :
    Bind(_nrf_write_reg(m3, STATUS,
             <<BitOr(BitOr(RX_DR, TX_DS), MAX_RT)>>), LAMBDA m4 :
    set_ce(m4))))))

power_up_rx(m) ==
    Bind(Enter(m, "power_up_rx"), LAMBDA m0 :
    Bind(unset_ce(m0), LAMBDA m1 :
    Bind(Then(m1, [m1 EXCEPT !._power_tx = 0]), LAMBDA m2 :
    Bind(_nrf_write_reg(m2, CONFIG,
             <<BitOr(BitOr(BitOr(EN_CRC, m2._crc_bytes), PWR_UP), PRIM_RX)>>), LAMBDA m3 :
    Bind(_nrf_write_reg(m3, STATUS,
             <<BitOr(BitOr(RX_DR, TX_DS), MAX_RT)>>), LAMBDA m4 :
    set_ce(m4))))))

\* power_down that writes CONFIG for the one-byte CRC whatever was set.
power_down_one_byte_crc(m) ==
    Bind(Enter(m, "power_down"), LAMBDA m0 :
    Bind(unset_ce(m0), LAMBDA m1 :
    _nrf_write_reg(m1, CONFIG, <<EN_CRC>>)))

power_down(m) ==
    Bind(Enter(m, "power_down"), LAMBDA m0 :
    Bind(unset_ce(m0), LAMBDA m1 :
    _nrf_write_reg(m1, CONFIG, <<BitOr(EN_CRC, m1._crc_bytes)>>)))

\* _configure_payload that sets the width of pipe 0 only.
_configure_payload_one_pipe(m) ==
    IF m._payload_size >= MIN_PAYLOAD THEN
        Bind(_nrf_write_reg(m, RX_PW_P0, <<m._payload_size>>), LAMBDA m1 :
        Bind(_nrf_write_reg(m1, DYNPD, <<0>>), LAMBDA m3 :
        _nrf_write_reg(m3, FEATURE, <<0>>)))
    ELSE
        Bind(_nrf_write_reg(m, DYNPD, <<BitOr(DPL_P0, DPL_P1)>>), LAMBDA m1 :
        IF m1._payload_size = ACK_PAYLOAD
            THEN _nrf_write_reg(m1, FEATURE, <<BitOr(EN_DPL, EN_ACK_PAY)>>)
            ELSE _nrf_write_reg(m1, FEATURE, <<EN_DPL>>))

\* _configure_payload that leaves FEATURE alone for a fixed size.
_configure_payload_keeps_feature(m) ==
    IF m._payload_size >= MIN_PAYLOAD THEN
        Bind(_nrf_write_reg(m, RX_PW_P0, <<m._payload_size>>), LAMBDA m1 :
        Bind(_nrf_write_reg(m1, RX_PW_P1, <<m1._payload_size>>), LAMBDA m2 :
        _nrf_write_reg(m2, DYNPD, <<0>>)))
    ELSE
        Bind(_nrf_write_reg(m, DYNPD, <<BitOr(DPL_P0, DPL_P1)>>), LAMBDA m1 :
        IF m1._payload_size = ACK_PAYLOAD
            THEN _nrf_write_reg(m1, FEATURE, <<BitOr(EN_DPL, EN_ACK_PAY)>>)
            ELSE _nrf_write_reg(m1, FEATURE, <<EN_DPL>>))

_configure_payload(m) ==
    IF m._payload_size >= MIN_PAYLOAD THEN
        Bind(_nrf_write_reg(m, RX_PW_P0, <<m._payload_size>>), LAMBDA m1 :
        Bind(_nrf_write_reg(m1, RX_PW_P1, <<m1._payload_size>>), LAMBDA m2 :
        Bind(_nrf_write_reg(m2, DYNPD, <<0>>), LAMBDA m3 :
        _nrf_write_reg(m3, FEATURE, <<0>>))))
    ELSE
        Bind(_nrf_write_reg(m, DYNPD, <<BitOr(DPL_P0, DPL_P1)>>), LAMBDA m1 :
        IF m1._payload_size = ACK_PAYLOAD
            THEN _nrf_write_reg(m1, FEATURE, <<BitOr(EN_DPL, EN_ACK_PAY)>>)
            ELSE _nrf_write_reg(m1, FEATURE, <<EN_DPL>>))

\* set_channel that caches the channel and writes it to RF_SETUP.
set_channel_wrong_register(m, channel) ==
    IF ~(0 <= channel /\ channel <= 125) THEN Raise(m, "AssertionError")
    ELSE Bind([m EXCEPT !._channel = channel], LAMBDA m1 :
         _nrf_write_reg(m1, RF_SETUP, <<m1._channel>>))

set_channel(m, channel) ==
    IF ~(0 <= channel /\ channel <= 125) THEN Raise(m, "AssertionError")
    ELSE Bind([m EXCEPT !._channel = channel], LAMBDA m1 :
         _nrf_write_reg(m1, RF_CH, <<m1._channel>>))

set_payload_size(m, payload) ==
    IF ~(ACK_PAYLOAD <= payload /\ payload <= MAX_PAYLOAD)
        THEN Raise(m, "AssertionError")
    ELSE Bind([m EXCEPT !._payload_size = payload], LAMBDA m1 :
         _configure_payload(m1))

\* pad is an integer here, for which ord(pad) raises and the except branch
\* stores pad itself; the range is asserted after the assignment.
set_padding(m, pad) ==
    Bind([m EXCEPT !._padding = pad], LAMBDA m1 :
    IF ~(0 <= m1._padding /\ m1._padding <= 255)
        THEN Raise(m1, "AssertionError")
        ELSE m1)

set_address_bytes(m, address_bytes) ==
    IF ~(3 <= address_bytes /\ address_bytes <= 5) THEN Raise(m, "AssertionError")
    ELSE Bind([m EXCEPT !._address_width = address_bytes], LAMBDA m1 :
         _nrf_write_reg(m1, SETUP_AW, <<m1._address_width - 2>>))

set_crc_bytes(m, crc_bytes) ==
    IF ~(1 <= crc_bytes /\ crc_bytes <= 2) THEN Raise(m, "AssertionError")
    ELSE IF crc_bytes = 1 THEN [m EXCEPT !._crc_bytes = 0]
    ELSE [m EXCEPT !._crc_bytes = CRCO]

\* The two rate bits of value, set for rate.
RateBits(value, rate) ==
    IF rate = RF24_250KBPS THEN BitOr(value, RF_DR_LOW)
    ELSE IF rate = RF24_2MBPS THEN BitOr(value, RF_DR_HIGH)
    ELSE value

\* set_data_rate that writes the rate bits without reading the register.
set_data_rate_overwrite(m, rate) ==
    IF ~(RF24_1MBPS <= rate /\ rate <= RF24_250KBPS) THEN Raise(m, "AssertionError")
    ELSE _nrf_write_reg(m, RF_SETUP, <<RateBits(0, rate)>>)

\* set_data_rate that sets the bit of the new rate and leaves the other.
set_data_rate_no_clear(m, rate) ==
    IF ~(RF24_1MBPS <= rate /\ rate <= RF24_250KBPS) THEN Raise(m, "AssertionError")
    ELSE Bind(_nrf_read_reg(m, RF_SETUP, 1), LAMBDA m1 :
         IF m1.exc # "none" THEN m1
         ELSE _nrf_write_reg(m1, RF_SETUP, <<RateBits(m1.val[1], rate)>>))

set_data_rate(m, rate) ==
    IF ~(RF24_1MBPS <= rate /\ rate <= RF24_250KBPS) THEN Raise(m, "AssertionError")
    ELSE Bind(_nrf_read_reg(m, RF_SETUP, 1), LAMBDA m1 :
         IF m1.exc # "none" THEN m1
         ELSE _nrf_write_reg(m1, RF_SETUP,
                  <<RateBits(BitClear(m1.val[1], BitOr(RF_DR_LOW, RF_DR_HIGH)), rate)>>))

(***************************************************************************)
(* Payload I/O.  A message or address is [kind, v]: a list of integers, a  *)
(* bytes object (v its integers) or a str (v its characters).              *)
(***************************************************************************)
ord(c) ==
    CASE c = "D" -> 68 [] c = "T" -> 84 [] c = "P" -> 80 [] c = "C" -> 67
      [] c = "L" -> 76 [] c = "N" -> 78 [] c = "0" -> 48 [] c = "1" -> 49

List(v) == [kind |-> "list", v |-> v]

\* list(map(ord, s)) for a str s, list(msg) otherwise.
AsList(msg) ==
    IF msg.kind = "str" THEN [i \in 1..Len(msg.v) |-> ord(msg.v[i])] ELSE msg.v

\* _make_fixed_width that pads but does not cut.
_make_fixed_width_no_cut(msg, width, pad) ==
    Bind(AsList(msg), LAMBDA l :
    IF Len(l) >= width THEN l
    ELSE l \o [i \in 1..(width - Len(l)) |-> pad])

_make_fixed_width(msg, width, pad) ==
    Bind(AsList(msg), LAMBDA l :
    IF Len(l) >= width THEN SubSeq(l, 1, width)
    ELSE l \o [i \in 1..(width - Len(l)) |-> pad])

\* The payload send hands to the TX-payload command.
Framed(m, d) ==
    IF m._payload_size >= MIN_PAYLOAD
        THEN List(_make_fixed_width(d, m._payload_size, m._padding))
        ELSE d

\* send that flushes on MAX_RT only.
send_flush_on_max_rt(m, d) ==
    Bind(IF d.kind = "str" THEN List(AsList(d)) ELSE d, LAMBDA d1 :
    Bind(get_status(m), LAMBDA m1 :
    Bind(IF m1.exc = "none" /\ Truthy(BitAnd(m1.val[1], MAX_RT))
             THEN flush_tx(m1) ELSE m1, LAMBDA m2 :
    Bind(Framed(m2, d1), LAMBDA d2 :
    Bind(IF d2.kind # "list" THEN Then(m2, Raise(m2, "TypeError"))
         ELSE _nrf_command(m2, <<W_TX_PAYLOAD>> \o d2.v), LAMBDA m3 :
    Then(m3, power_up_tx(m3)))))))

send(m, d) ==
    Bind(IF d.kind = "str" THEN List(AsList(d)) ELSE d, LAMBDA d1 :
    Bind(get_status(m), LAMBDA m1 :
    Bind(IF m1.exc = "none" /\ Truthy(BitAnd(m1.val[1], BitOr(TX_FULL, MAX_RT)))
             THEN flush_tx(m1) ELSE m1, LAMBDA m2 :
    Bind(Framed(m2, d1), LAMBDA d2 :
    \* [W_TX_PAYLOAD] + data: a list and a bytes object do not concatenate.
    Bind(IF d2.kind # "list" THEN Then(m2, Raise(m2, "TypeError"))
         ELSE _nrf_command(m2, <<W_TX_PAYLOAD>> \o d2.v), LAMBDA m3 :
    Then(m3, power_up_tx(m3)))))))

\* set_local_address that writes the address as given.
set_local_address_as_given(m, address) ==
    Bind(AsList(address), LAMBDA addr :
    Bind(unset_ce(m), LAMBDA m1 :
    Bind(_nrf_write_reg(m1, RX_ADDR_P1, addr), LAMBDA m2 :
    set_ce(m2))))

set_local_address(m, address) ==
    Bind(_make_fixed_width(address, m._address_width, m._padding), LAMBDA addr :
    Bind(unset_ce(m), LAMBDA m1 :
    Bind(_nrf_write_reg(m1, RX_ADDR_P1, addr), LAMBDA m2 :
    set_ce(m2))))

\* set_remote_address that writes the transmit address only.
set_remote_address_tx_only(m, raddr) ==
    Bind(_make_fixed_width(raddr, m._address_width, m._padding), LAMBDA addr :
    Bind(unset_ce(m), LAMBDA m1 :
    Bind(_nrf_write_reg(m1, TX_ADDR, addr), LAMBDA m2 :
    set_ce(m2))))

\* set_remote_address that asserts chip-enable before the second write.
set_remote_address_early_ce(m, raddr) ==
    Bind(_make_fixed_width(raddr, m._address_width, m._padding), LAMBDA addr :
    Bind(unset_ce(m), LAMBDA m1 :
    Bind(_nrf_write_reg(m1, TX_ADDR, addr), LAMBDA m2 :
    Bind(set_ce(m2), LAMBDA m3 :
    _nrf_write_reg(m3, RX_ADDR_P0, addr)))))

set_remote_address(m, raddr) ==
    Bind(_make_fixed_width(raddr, m._address_width, m._padding), LAMBDA addr :
    Bind(unset_ce(m), LAMBDA m1 :
    Bind(_nrf_write_reg(m1, TX_ADDR, addr), LAMBDA m2 :
    Bind(_nrf_write_reg(m2, RX_ADDR_P0, addr), LAMBDA m3 :
    set_ce(m3)))))

\* data_ready that trusts RX_DR alone.
data_ready_flag_only(m) ==
    Bind(get_status(m), LAMBDA m1 :
    IF m1.exc # "none" THEN m1
    ELSE IF Truthy(BitAnd(m1.val[1], RX_DR)) THEN Return(m1, "True")
    ELSE Return(m1, "False"))

data_ready(m) ==
    Bind(get_status(m), LAMBDA m1 :
    IF m1.exc # "none" THEN m1
    ELSE IF Truthy(BitAnd(m1.val[1], RX_DR)) THEN Return(m1, "True")
    ELSE Bind(_nrf_read_reg(m1, FIFO_STATUS, 1), LAMBDA m2 :
         IF m2.exc # "none" THEN m2
         ELSE IF Truthy(BitAnd(m2.val[1], FRX_EMPTY)) THEN Return(m2, "False")
         ELSE Return(m2, "True")))

\* is_sending that polls the status whatever the transmitting flag says.
is_sending_always_polls(m) ==
    Bind(get_status(m), LAMBDA m1 :
    IF m1.exc # "none" THEN m1
    ELSE IF Truthy(BitAnd(m1.val[1], BitOr(TX_DS, MAX_RT)))
        THEN Bind(power_up_rx(m1), LAMBDA m2 : Return(m2, "False"))
    ELSE Return(m1, "True"))

\* is_sending that clears the transmitting flag and leaves the chip as it is.
is_sending_flag_only(m) ==
    IF m._power_tx > 0 THEN
        Bind(get_status(m), LAMBDA m1 :
        IF m1.exc # "none" THEN m1
        ELSE IF Truthy(BitAnd(m1.val[1], BitOr(TX_DS, MAX_RT)))
            THEN Return([m1 EXCEPT !._power_tx = 0], "False")
        ELSE Return(m1, "True"))
    ELSE Return(m, "False")

\* is_sending that reports the end of the transmission and stays in TX mode.
is_sending_no_transition(m) ==
    IF m._power_tx > 0 THEN
        Bind(get_status(m), LAMBDA m1 :
        IF m1.exc # "none" THEN m1
        ELSE IF Truthy(BitAnd(m1.val[1], BitOr(TX_DS, MAX_RT)))
            THEN Return(m1, "False")
        ELSE Return(m1, "True"))
    ELSE Return(m, "False")

is_sending(m) ==
    IF m._power_tx > 0 THEN
        Bind(get_status(m), LAMBDA m1 :
        IF m1.exc # "none" THEN m1
        ELSE IF Truthy(BitAnd(m1.val[1], BitOr(TX_DS, MAX_RT)))
            THEN Bind(power_up_rx(m1), LAMBDA m2 : Return(m2, "False"))
        ELSE Return(m1, "True"))
    ELSE Return(m, "False")

\* get_payload that reads the largest payload instead of probing the width.
get_payload_no_probe(m) ==
    Bind(IF m._payload_size < MIN_PAYLOAD THEN MAX_PAYLOAD
         ELSE m._payload_size, LAMBDA bytes_count :
    Bind(_nrf_read_reg(m, R_RX_PAYLOAD, bytes_count), LAMBDA m2 :
    Bind(unset_ce(m2), LAMBDA m3 :
    Bind(_nrf_write_reg(m3, STATUS, <<RX_DR>>), LAMBDA m4 :
    Bind(set_ce(m4), LAMBDA m5 :
    Then(m5, [m5 EXCEPT !.ret = "list", !.ret_data = m2.val]))))))

\* get_payload that leaves RX_DR set.
get_payload_no_clear(m) ==
    Bind(IF m._payload_size < MIN_PAYLOAD
             THEN _nrf_command(m, <<R_RX_PL_WID, 0>>) ELSE m, LAMBDA m1 :
    IF m1.exc # "none" THEN m1
    ELSE
    Bind(IF m1._payload_size < MIN_PAYLOAD THEN m1.val[2]
         ELSE m1._payload_size, LAMBDA bytes_count :
    Bind(_nrf_read_reg(m1, R_RX_PAYLOAD, bytes_count), LAMBDA m2 :
    Then(m2, [m2 EXCEPT !.ret = "list", !.ret_data = m2.val]))))

get_payload(m) ==
    Bind(IF m._payload_size < MIN_PAYLOAD
             THEN _nrf_command(m, <<R_RX_PL_WID, 0>>) ELSE m, LAMBDA m1 :
    IF m1.exc # "none" THEN m1
    ELSE
    Bind(IF m1._payload_size < MIN_PAYLOAD THEN m1.val[2]
         ELSE m1._payload_size, LAMBDA bytes_count :
    Bind(_nrf_read_reg(m1, R_RX_PAYLOAD, bytes_count), LAMBDA m2 :
    Bind(unset_ce(m2), LAMBDA m3 :
    Bind(_nrf_write_reg(m3, STATUS, <<RX_DR>>), LAMBDA m4 :
    Bind(set_ce(m4), LAMBDA m5 :
    Then(m5, [m5 EXCEPT !.ret = "list", !.ret_data = m2.val])))))))

(***************************************************************************)
(* Construction.  The chip may have been left in any state by an earlier   *)
(* session: boot gives the RF_SETUP register, the interrupt flags, the     *)
(* FIFO fill and the line level the constructor finds.                     *)
(***************************************************************************)
PowerOn(boot) ==
    [_channel |-> 0, _payload_size |-> 0, _address_width |-> 0, _crc_bytes |-> 0,
     _padding |-> 0, _power_tx |-> 0,
     ce |-> boot.ce,
     regs |-> [a \in Registers |->
                 IF a = RF_SETUP THEN <<boot.rf_setup>>
                 ELSE IF a \in {RX_ADDR_P0, RX_ADDR_P1, TX_ADDR} THEN <<0, 0, 0, 0, 0>>
                 ELSE <<0>>],
     irq |-> boot.irq, tx_fifo |-> boot.tx_fifo, rx_fifo |-> boot.rx_fifo,
     log |-> <<>>, ret |-> "None", ret_data |-> <<>>, exc |-> "none",
     transition |-> "none", val |-> <<>>, resp |-> <<>>, io |-> 0, fail_at |-> 0]

\* __init__ that powers up to receive without flushing the FIFOs.
__init__no_flush(m, a) ==
    Bind(unset_ce(m), LAMBDA m1 :
    Bind(Then(m1, set_data_rate(m1, a.data_rate)), LAMBDA m2 :
    Bind(Then(m2, set_channel([m2 EXCEPT !._channel = 0], a.channel)), LAMBDA m3 :
    Bind(Then(m3, set_payload_size([m3 EXCEPT !._payload_size = 0],
                                   a.payload_size)), LAMBDA m4 :
    Bind(Then(m4, set_address_bytes([m4 EXCEPT !._address_width = 5],
                                    a.address_bytes)), LAMBDA m5 :
    Bind(Then(m5, set_crc_bytes([m5 EXCEPT !._crc_bytes = 1], a.crc_bytes)), LAMBDA m6 :
    Bind(Then(m6, set_padding([m6 EXCEPT !._padding = 32], a.pad)), LAMBDA m7 :
    Bind(Then(m7, power_down([m7 EXCEPT !._power_tx = 0])), LAMBDA m8 :
    Bind(_nrf_write_reg(m8, SETUP_RETR, <<31>>), LAMBDA m9 :
    Then(m9, power_up_rx(m9)))))))))))

__init__(m, a) ==
    Bind(unset_ce(m), LAMBDA m1 :
    Bind(Then(m1, set_data_rate(m1, a.data_rate)), LAMBDA m2 :
    Bind(Then(m2, set_channel([m2 EXCEPT !._channel = 0], a.channel)), LAMBDA m3 :
    Bind(Then(m3, set_payload_size([m3 EXCEPT !._payload_size = 0],
                                   a.payload_size)), LAMBDA m4 :
    Bind(Then(m4, set_address_bytes([m4 EXCEPT !._address_width = 5],
                                    a.address_bytes)), LAMBDA m5 :
    Bind(Then(m5, set_crc_bytes([m5 EXCEPT !._crc_bytes = 1], a.crc_bytes)), LAMBDA m6 :
    Bind(Then(m6, set_padding([m6 EXCEPT !._padding = 32], a.pad)), LAMBDA m7 :
    Bind(Then(m7, power_down([m7 EXCEPT !._power_tx = 0])), LAMBDA m8 :
    Bind(_nrf_write_reg(m8, SETUP_RETR, <<31>>), LAMBDA m9 :
    Bind(flush_rx(m9), LAMBDA m10 :
    Bind(flush_tx(m10), LAMBDA m11 :
    Then(m11, power_up_rx(m11)))))))))))))

(***************************************************************************)
(* The arguments the calls are made with: for each setter, values inside   *)
(* and on both sides outside its range.                                    *)
(***************************************************************************)
Channels == {-1, 0, 40, 125, 126}

PayloadSizes == {-2, ACK_PAYLOAD, DYNAMIC_PAYLOAD, 2, MAX_PAYLOAD + 1}

Paddings == {-1, 0, 256}

AddressBytes == {2, 3, 6}

CrcBytes == {0, 1, 2, 3}

DataRates == {-1, RF24_1MBPS, RF24_2MBPS, RF24_250KBPS, 3}

\* Tuples, not sets: a str and a list of integers are not comparable.
Payloads ==
    <<List(<<>>), List(<<1>>), List(<<1, 2, 3>>),
      List([i \in 1..(MAX_PAYLOAD + 1) |-> 9]),
      [kind |-> "bytes", v |-> <<7, 8>>],
      [kind |-> "str", v |-> <<"T">>]>>

Addresses ==
    <<[kind |-> "str", v |-> <<"D", "T", "P", "0", "1">>],
      List(<<1, 2>>), List(<<1, 2, 3, 4, 5, 6>>)>>

\* The constructions: what the chip was left with (see PowerOn) and the
\* constructor's arguments; the first has the constructor's defaults, the
\* second the dynamic payload mode and the other end of every range.
Starts ==
    <<[boot |-> [rf_setup |-> 15, irq |-> 0, tx_fifo |-> 0, rx_fifo |-> <<>>, ce |-> 0],
       args |-> [data_rate |-> RF24_1MBPS, channel |-> 76, payload_size |-> MAX_PAYLOAD,
                 address_bytes |-> 5, crc_bytes |-> 2, pad |-> 32]],
      [boot |-> [rf_setup |-> 38, irq |-> BitOr(BitOr(RX_DR, TX_DS), MAX_RT),
                 tx_fifo |-> FifoLevels, rx_fifo |-> << <<1>> >>, ce |-> 1],
       args |-> [data_rate |-> RF24_250KBPS, channel |-> 1,
                 payload_size |-> DYNAMIC_PAYLOAD,
                 address_bytes |-> 3, crc_bytes |-> 1, pad |-> 0]],
      [boot |-> [rf_setup |-> 6, irq |-> 0, tx_fifo |-> 0, rx_fifo |-> <<>>, ce |-> 1],
       args |-> [data_rate |-> RF24_2MBPS, channel |-> 125, payload_size |-> 4,
                 address_bytes |-> 4, crc_bytes |-> 2, pad |-> 255]]>>

\* Lengths of the packets that arrive in dynamic and ack-payload mode.
RxLengths == {1, 3}

NoData == List(<<>>)

(***************************************************************************)
(* The state machine.                                                      *)
(***************************************************************************)
\* The running call: the object and the chip as they are, nothing observed yet.
Self ==
    [_channel |-> _channel, _payload_size |-> _payload_size,
     _address_width |-> _address_width, _crc_bytes |-> _crc_bytes,
     _padding |-> _padding, _power_tx |-> _power_tx,
     ce |-> ce, regs |-> regs, irq |-> irq, tx_fifo |-> tx_fifo, rx_fifo |-> rx_fifo,
     log |-> <<>>, ret |-> "None", ret_data |-> <<>>, exc |-> "none",
     transition |-> transition, val |-> <<>>, resp |-> <<>>, io |-> 0, fail_at |-> 0]

\* The time server after NRF24TimeServer.__init__.
ServerInit ==
    /\ _running = FALSE /\ _pi = 0 /\ _nrf = 0
    /\ connections = 0 /\ stopped = {}
    /\ thread = [pc |-> "new", nrf |-> 0, io |-> 0]
    /\ handler = "none" /\ signals_left = MaxSignals

\* The daemon processes, the first with PID 1, before any of them has
\* touched the PID file.
Procs == 1..MaxProcs

\* The PID of a process that is dead and stays dead.
StalePid == MaxProcs + 1

\* What may be at the path when the first daemon starts.
Contents == <<"absent", "empty", "stale">>

PidInit(content) ==
    /\ pid_path = (IF content = "absent" THEN 0 ELSE 1)
    /\ pid_files = (CASE content = "absent" -> <<>>
                      [] content = "empty" -> << <<>> >>
                      [] content = "stale" -> << <<StalePid>> >>)
    /\ pid_locks = [i \in DOMAIN pid_files |-> 0]
    /\ procs = [p \in Procs |-> [pc |-> "idle", fd |-> 0, pid |-> -1]]

\* The driver after construction, for a client that makes n calls.
NRF24Constructed(n) ==
    \E i \in 1..Len(Starts) :
        \E m \in {__init__(PowerOn(Starts[i].boot), Starts[i].args)} :
            /\ m.exc = "none"
            /\ _channel = m._channel /\ _payload_size = m._payload_size
            /\ _address_width = m._address_width /\ _crc_bytes = m._crc_bytes
            /\ _padding = m._padding /\ _power_tx = m._power_tx
            /\ ce = m.ce /\ regs = m.regs /\ irq = m.irq
            /\ tx_fifo = m.tx_fifo /\ rx_fifo = m.rx_fifo
            /\ op = "__init__" /\ arg = 0 /\ data = NoData
            /\ log = m.log /\ ret = m.ret /\ ret_data = m.ret_data /\ exc = m.exc
            /\ transition = m.transition /\ calls_left = n
            /\ fail_at = m.fail_at

\* The state after construction: the driver's, with no time server started
\* and no PID file.
Constructed(n) == NRF24Constructed(n) /\ ServerInit /\ PidInit("absent")

Init == Constructed(MaxCalls)

\* The method name ran with argument a or d and ended in r.
Ran(name, a, d, r) ==
    \E m \in {r} :
        /\ _channel' = m._channel /\ _payload_size' = m._payload_size
        /\ _address_width' = m._address_width /\ _crc_bytes' = m._crc_bytes
        /\ _padding' = m._padding /\ _power_tx' = m._power_tx
        /\ ce' = m.ce /\ regs' = m.regs /\ irq' = m.irq
        /\ tx_fifo' = m.tx_fifo /\ rx_fifo' = m.rx_fifo
        /\ op' = name /\ arg' = a /\ data' = d
        /\ log' = m.log /\ ret' = m.ret /\ ret_data' = m.ret_data /\ exc' = m.exc
        /\ transition' = m.transition /\ fail_at' = m.fail_at
        /\ UNCHANGED <<server, pidfile>>

\* One of the calls the client still makes.
Call(name, a, d, r) ==
    /\ calls_left > 0
    /\ Ran(name, a, d, r)
    /\ calls_left' = calls_left - 1

SetChannel == \E c \in Channels : Call("set_channel", c, NoData, set_channel(Self, c))

SetPayloadSize ==
    \E p \in PayloadSizes : Call("set_payload_size", p, NoData, set_payload_size(Self, p))

SetPadding == \E p \in Paddings : Call("set_padding", p, NoData, set_padding(Self, p))

SetAddressBytes ==
    \E w \in AddressBytes : Call("set_address_bytes", w, NoData, set_address_bytes(Self, w))

SetCrcBytes == \E c \in CrcBytes : Call("set_crc_bytes", c, NoData, set_crc_bytes(Self, c))

SetDataRate == \E r \in DataRates : Call("set_data_rate", r, NoData, set_data_rate(Self, r))

Send ==
    \E i \in 1..Len(Payloads) : Call("send", 0, Payloads[i], send(Self, Payloads[i]))

SetLocalAddress ==
    \E i \in 1..Len(Addresses) :
        Call("set_local_address", 0, Addresses[i], set_local_address(Self, Addresses[i]))

SetRemoteAddress ==
    \E i \in 1..Len(Addresses) :
        Call("set_remote_address", 0, Addresses[i], set_remote_address(Self, Addresses[i]))

DataReady == Call("data_ready", 0, NoData, data_ready(Self))

IsSending == Call("is_sending", 0, NoData, is_sending(Self))

GetPayload == Call("get_payload", 0, NoData, get_payload(Self))

PowerUpTx == Call("power_up_tx", 0, NoData, power_up_tx(Self))

PowerUpRx == Call("power_up_rx", 0, NoData, power_up_rx(Self))

PowerDown == Call("power_down", 0, NoData, power_down(Self))

(***************************************************************************)
(* What the chip does on its own between two calls.                        *)
(***************************************************************************)
ConfigBit(b) == Truthy(BitAnd(regs[CONFIG][1], b))

InTxMode == ce = 1 /\ ConfigBit(PWR_UP) /\ ~ConfigBit(PRIM_RX)

InRxMode == ce = 1 /\ ConfigBit(PWR_UP) /\ ConfigBit(PRIM_RX)

ChipStep(name) ==
    /\ op' = name /\ arg' = 0 /\ data' = NoData
    /\ log' = <<>> /\ ret' = "None" /\ ret_data' = <<>> /\ exc' = "none"
    /\ fail_at' = 0
    /\ UNCHANGED <<_channel, _payload_size, _address_width, _crc_bytes, _padding,
                   _power_tx, ce, regs, transition, calls_left>>
    /\ UNCHANGED <<server, pidfile>>

\* A packet of the TX FIFO was sent and acknowledged.
ChipTxDone ==
    /\ InTxMode /\ tx_fifo > 0
    /\ tx_fifo' = tx_fifo - 1 /\ irq' = BitOr(irq, TX_DS)
    /\ UNCHANGED rx_fifo
    /\ ChipStep("chip_tx_done")

\* The retransmissions of the packet at the head of the TX FIFO ran out.
ChipMaxRetry ==
    /\ InTxMode /\ tx_fifo > 0 /\ ~Truthy(BitAnd(irq, MAX_RT))
    /\ irq' = BitOr(irq, MAX_RT)
    /\ UNCHANGED <<tx_fifo, rx_fifo>>
    /\ ChipStep("chip_max_rt")

\* A packet arrived on pipe 1: of the configured width, or of any length when
\* the pipe's dynamic payload length is on.
ChipReceive ==
    /\ InRxMode /\ Len(rx_fifo) < FifoLevels
    /\ \E n \in (IF regs[DYNPD] = <<0>> THEN {regs[RX_PW_P1][1]} ELSE RxLengths) :
           rx_fifo' = Append(rx_fifo, [i \in 1..n |-> 170])
    /\ irq' = BitOr(irq, RX_DR)
    /\ UNCHANGED tx_fifo
    /\ ChipStep("chip_rx")

Next ==
    \/ SetChannel \/ SetPayloadSize \/ SetPadding \/ SetAddressBytes
    \/ SetCrcBytes \/ SetDataRate \/ Send \/ SetLocalAddress \/ SetRemoteAddress
    \/ DataReady \/ IsSending \/ GetPayload \/ PowerUpTx \/ PowerUpRx \/ PowerDown
    \/ ChipTxDone \/ ChipMaxRetry \/ ChipReceive

Spec == Init /\ [][Next]_vars

\* A client that only sends and changes mode, and makes more calls.
InitTx == Constructed(MaxTxCalls)

NextTx ==
    \/ Send \/ IsSending \/ PowerUpTx \/ PowerUpRx \/ PowerDown
    \/ ChipTxDone \/ ChipMaxRetry

SpecTx == InitTx /\ [][NextTx]_vars

(***************************************************************************)
(* A client whose transport may fail: the k-th transport call of a method  *)
(* call (a write of the chip-enable line or a bus exchange) raises, for    *)
(* any k; a method that makes fewer than k transport calls runs as usual.  *)
(***************************************************************************)
Faulty(k) == [Self EXCEPT !.fail_at = k]

FailPoints == 1..MaxFailAt

SetChannelFaulty ==
    \E k \in FailPoints : Call("set_channel", 40, NoData, set_channel(Faulty(k), 40))

SetPayloadSizeFaulty ==
    \E k \in FailPoints : \E p \in {DYNAMIC_PAYLOAD, 2} :
        Call("set_payload_size", p, NoData, set_payload_size(Faulty(k), p))

SetAddressBytesFaulty ==
    \E k \in FailPoints :
        Call("set_address_bytes", 4, NoData, set_address_bytes(Faulty(k), 4))

SetDataRateFaulty ==
    \E k \in FailPoints :
        Call("set_data_rate", RF24_2MBPS, NoData, set_data_rate(Faulty(k), RF24_2MBPS))

SendFaulty ==
    \E k \in FailPoints : Call("send", 0, Payloads[2], send(Faulty(k), Payloads[2]))

SetLocalAddressFaulty ==
    \E k \in FailPoints :
        Call("set_local_address", 0, Addresses[2], set_local_address(Faulty(k), Addresses[2]))

SetRemoteAddressFaulty ==
    \E k \in FailPoints :
        Call("set_remote_address", 0, Addresses[2],
             set_remote_address(Faulty(k), Addresses[2]))

DataReadyFaulty ==
    \E k \in FailPoints : Call("data_ready", 0, NoData, data_ready(Faulty(k)))

IsSendingFaulty ==
    \E k \in FailPoints : Call("is_sending", 0, NoData, is_sending(Faulty(k)))

GetPayloadFaulty ==
    \E k \in FailPoints : Call("get_payload", 0, NoData, get_payload(Faulty(k)))

PowerUpTxFaulty ==
    \E k \in FailPoints : Call("power_up_tx", 0, NoData, power_up_tx(Faulty(k)))

PowerUpRxFaulty ==
    \E k \in FailPoints : Call("power_up_rx", 0, NoData, power_up_rx(Faulty(k)))

PowerDownFaulty ==
    \E k \in FailPoints : Call("power_down", 0, NoData, power_down(Faulty(k)))

InitFault == Constructed(MaxFaultCalls)

NextFault ==
    \/ SetChannelFaulty \/ SetPayloadSizeFaulty \/ SetAddressBytesFaulty
    \/ SetDataRateFaulty \/ SendFaulty \/ SetLocalAddressFaulty
    \/ SetRemoteAddressFaulty \/ DataReadyFaulty \/ IsSendingFaulty
    \/ GetPayloadFaulty \/ PowerUpTxFaulty \/ PowerUpRxFaulty \/ PowerDownFaulty
    \/ ChipTxDone \/ ChipMaxRetry \/ ChipReceive

SpecFault == InitFault /\ [][NextFault]_vars

(***************************************************************************)
(* Reading the log of a call.                                              *)
(***************************************************************************)
IsCe(e, level) == e.k = "ce" /\ e.v = level

IsXfer(e) == e.k = "xfer"

\* e is the exchange that sends exactly the bytes tx.
Sends(e, tx) == e.k = "xfer" /\ e.tx = tx

\* e is an exchange whose first byte is the opcode c.
HasOpcode(e, c) == e.k = "xfer" /\ e.tx[1] = c

\* e is a register write to reg.
IsRegWrite(e, reg) == HasOpcode(e, W_REGISTER + reg)

\* The positions of the log l that hold an exchange with opcode c.
Positions(l, c) == {i \in 1..Len(l) : HasOpcode(l[i], c)}

\* The CONFIG value of a power-up: CRC on, the cached CRC width, power up and,
\* for receive, primary receive.
PowerUpConfig(rx) == EN_CRC + _crc_bytes + PWR_UP + (IF rx THEN PRIM_RX ELSE 0)

\* l is the procedure of a power-up transition, and nothing else.
IsPowerUp(l, rx) ==
    /\ Len(l) = 4
    /\ IsCe(l[1], 0)
    /\ Sends(l[2], <<W_REGISTER + CONFIG, PowerUpConfig(rx)>>)
    /\ Sends(l[3], <<W_REGISTER + STATUS, RX_DR + TX_DS + MAX_RT>>)
    /\ IsCe(l[4], 1)

\* The last n events of l.
Last(l, n) == SubSeq(l, Len(l) - n + 1, Len(l))

(***************************************************************************)
(* C1.  Both power-up transitions do, in this order and with nothing in    *)
(* between: chip-enable low, write CONFIG (CRC on, cached CRC width, power *)
(* up, and primary receive for power_up_rx only), write STATUS to clear    *)
(* RX_DR, TX_DS and MAX_RT, chip-enable high.  This holds of the           *)
(* transition called directly, and of the one that ends send and the       *)
(* is_sending that saw the transmission end.                               *)
(***************************************************************************)
C1_PowerUpProcedure ==
    /\ op = "power_up_tx" => IsPowerUp(log, FALSE)
    /\ op = "power_up_rx" => IsPowerUp(log, TRUE)
    /\ (op = "send" /\ exc = "none") => IsPowerUp(Last(log, 4), FALSE)
    /\ (op = "is_sending" /\ Len(log) > 1) => IsPowerUp(Last(log, 4), TRUE)
    /\ op \in {"power_up_tx", "power_up_rx", "send", "is_sending"} =>
           \A i \in 1..Len(log) :
               IsCe(log[i], 1) =>
                   /\ i > 1
                   /\ Sends(log[i - 1], <<W_REGISTER + STATUS, RX_DR + TX_DS + MAX_RT>>)

\* power_up_tx ran with the one-byte CRC and left the line high.
C1_Witness ==
    /\ op = "power_up_tx" /\ exc = "none"
    /\ _crc_bytes = 0 /\ ce = 1 /\ irq = 0
    /\ log[2].tx = <<W_REGISTER + CONFIG, EN_CRC + PWR_UP>>

(***************************************************************************)
(* C2.  is_sending returns False when the last mode transition was         *)
(* power_up_rx.  After power_up_tx, when the status byte it samples has    *)
(* TX_DS or MAX_RT set it returns False and leaves the driver receiving    *)
(* (flag clear, CONFIG with power up and primary receive, chip-enable      *)
(* high); when neither is set it returns True and changes nothing.         *)
(***************************************************************************)
Unchanged2 ==
    UNCHANGED <<_channel, _payload_size, _address_width, _crc_bytes, _padding,
                _power_tx, ce, regs, irq, tx_fifo, rx_fifo, transition>>

C2_Step ==
    op' = "is_sending" =>
        /\ transition = "power_up_rx" => ret' = "False"
        /\ transition = "power_up_tx" =>
               /\ log' # <<>> /\ Sends(log'[1], <<NOP>>)
               /\ IF Truthy(BitAnd(log'[1].rx[1], TX_DS + MAX_RT))
                      THEN /\ ret' = "False"
                           /\ _power_tx' = 0
                           /\ Truthy(BitAnd(regs'[CONFIG][1], PWR_UP))
                           /\ Truthy(BitAnd(regs'[CONFIG][1], PRIM_RX))
                           /\ ce' = 1
                      ELSE /\ ret' = "True"
                           /\ Unchanged2

C2_IsSending == [][C2_Step]_vars

\* is_sending saw TX_DS in the status byte and went back to receiving.
C2_Witness ==
    /\ op = "is_sending" /\ ret = "False"
    /\ Len(log) = 5 /\ Truthy(BitAnd(log[1].rx[1], TX_DS))
    /\ transition = "power_up_rx" /\ _power_tx = 0 /\ ce = 1

(***************************************************************************)
(* C3.  send samples the status byte with a no-op; issues FLUSH_TX exactly *)
(* when TX_FULL or MAX_RT is set in it; writes the payload with            *)
(* W_TX_PAYLOAD; then runs the power_up_tx transition.  A flush precedes   *)
(* the payload write, which precedes the chip-enable assertion.            *)
(***************************************************************************)
C3_SendOrder ==
    op = "send" =>
        /\ log # <<>> /\ Sends(log[1], <<NOP>>)
        /\ LET flush == Truthy(BitAnd(log[1].rx[1], TX_FULL + MAX_RT))
               k == IF flush THEN 2 ELSE 1
           IN  /\ Positions(log, FLUSH_TX) = (IF flush THEN {2} ELSE {})
               /\ flush => Sends(log[2], <<FLUSH_TX>>)
               /\ exc = "none" =>
                      /\ Len(log) = k + 5
                      /\ Positions(log, W_TX_PAYLOAD) = {k + 1}
                      /\ IsPowerUp(Last(log, 4), FALSE)
               /\ exc # "none" => Len(log) = k

\* send found the TX FIFO full, flushed it and wrote the payload.
C3_Witness ==
    /\ op = "send" /\ exc = "none"
    /\ Truthy(BitAnd(log[1].rx[1], TX_FULL))
    /\ ~Truthy(BitAnd(log[1].rx[1], MAX_RT))
    /\ Sends(log[2], <<FLUSH_TX>>) /\ HasOpcode(log[3], W_TX_PAYLOAD)
    /\ tx_fifo = 1

(***************************************************************************)
(* C4.  With a fixed payload size s and a padding byte p, the bytes send   *)
(* writes after the W_TX_PAYLOAD opcode are s bytes: the first             *)
(* min(len(d), s) bytes of the payload d, then s - len(d) copies of p.     *)
(***************************************************************************)
FixedFrame(d, s, p) == [i \in 1..s |-> IF i <= Len(d) THEN d[i] ELSE p]

C4_FixedWidth ==
    (op = "send" /\ _payload_size >= MIN_PAYLOAD /\ IsByte(_padding)) =>
        /\ exc = "none"
        /\ \E i \in 1..Len(log) :
               /\ Positions(log, W_TX_PAYLOAD) = {i}
               /\ Len(log[i].tx) = _payload_size + 1
               /\ Tail(log[i].tx) = FixedFrame(AsList(data), _payload_size, _padding)

\* A one-byte payload went out padded to four bytes.
C4_Witness ==
    /\ op = "send" /\ _payload_size = 4 /\ _padding = 255
    /\ data = List(<<1>>)
    /\ \E i \in 1..Len(log) : Sends(log[i], <<W_TX_PAYLOAD, 1, 255, 255, 255>>)

\* A payload longer than the fixed size went out cut to it.
C4_WitnessTruncated ==
    /\ op = "send" /\ _payload_size = 2
    /\ data = List(<<1, 2, 3>>)
    /\ \E i \in 1..Len(log) : Sends(log[i], <<W_TX_PAYLOAD, 1, 2>>)

(***************************************************************************)
(* C5.  DYNPD and FEATURE hold the values of the payload mode applied      *)
(* last, with no bit left from an earlier mode: 0 and 0 for a fixed size,  *)
(* DPL_P0|DPL_P1 and EN_DPL for dynamic, DPL_P0|DPL_P1 and                 *)
(* EN_DPL|EN_ACK_PAY for ack-payload.                                      *)
(***************************************************************************)
C5_PayloadRegisters ==
    /\ _payload_size >= MIN_PAYLOAD =>
           regs[DYNPD] = <<0>> /\ regs[FEATURE] = <<0>>
    /\ _payload_size = DYNAMIC_PAYLOAD =>
           regs[DYNPD] = <<DPL_P0 + DPL_P1>> /\ regs[FEATURE] = <<EN_DPL>>
    /\ _payload_size = ACK_PAYLOAD =>
           regs[DYNPD] = <<DPL_P0 + DPL_P1>> /\ regs[FEATURE] = <<EN_DPL + EN_ACK_PAY>>
    /\ (op = "set_payload_size" /\ exc = "none") => _payload_size = arg

\* A fixed size was applied, as the first call, to the driver constructed in
\* dynamic mode (the only one with three address bytes), and both registers
\* are clear.
C5_Witness ==
    /\ op = "set_payload_size" /\ arg = 2 /\ exc = "none"
    /\ calls_left = MaxCalls - 1 /\ _address_width = 3
    /\ regs[DYNPD] = <<0>> /\ regs[FEATURE] = <<0>>

(***************************************************************************)
(* C6.  set_local_address and set_remote_address bracket their register    *)
(* writes with chip-enable: low before the first write (RX_ADDR_P1; TX_ADDR*)
(* then RX_ADDR_P0), no write while it is high, high again only after the  *)
(* last write.                                                             *)
(***************************************************************************)
\* No exchange of l comes after an assertion of chip-enable in l.
NoWriteWhileHigh(l) ==
    \A i, j \in 1..Len(l) : (IsCe(l[i], 1) /\ IsXfer(l[j])) => j < i

C6_AddressBracket ==
    /\ op \in {"set_local_address", "set_remote_address"} =>
           /\ log # <<>> /\ IsCe(log[1], 0)
           /\ NoWriteWhileHigh(log)
    /\ (op = "set_local_address" /\ exc = "none") =>
           /\ Len(log) = 3
           /\ IsRegWrite(log[2], RX_ADDR_P1)
           /\ IsCe(log[3], 1)
    /\ (op = "set_remote_address" /\ exc = "none") =>
           /\ Len(log) = 4
           /\ IsRegWrite(log[2], TX_ADDR)
           /\ IsRegWrite(log[3], RX_ADDR_P0)
           /\ IsCe(log[4], 1)

\* set_remote_address wrote both registers inside the bracket.
C6_Witness ==
    /\ op = "set_remote_address" /\ exc = "none"
    /\ Len(log) = 4 /\ IsRegWrite(log[3], RX_ADDR_P0) /\ ce = 1

(***************************************************************************)
(* C7.  In dynamic and ack-payload mode get_payload issues the width probe *)
(* (0x60) before the payload read (0x61) and requests and returns as many  *)
(* bytes as the probe answered; in fixed mode it issues no probe and reads *)
(* the configured payload size.                                            *)
(***************************************************************************)
C7_PayloadWidth ==
    op = "get_payload" =>
        IF _payload_size < MIN_PAYLOAD
            THEN /\ Len(log) >= 2
                 /\ Sends(log[1], <<R_RX_PL_WID, 0>>)
                 /\ Positions(log, R_RX_PL_WID) = {1}
                 /\ Positions(log, R_RX_PAYLOAD) = {2}
                 /\ Len(log[2].tx) - 1 = log[1].rx[2]
                 /\ Len(ret_data) = log[1].rx[2]
                 /\ ret_data = Tail(log[2].rx)
            ELSE /\ Positions(log, R_RX_PL_WID) = {}
                 /\ Positions(log, R_RX_PAYLOAD) = {1}
                 /\ Len(log[1].tx) - 1 = _payload_size
                 /\ Len(ret_data) = _payload_size
                 /\ ret_data = Tail(log[1].rx)

\* A three-byte packet was read in dynamic mode.
C7_Witness ==
    /\ op = "get_payload" /\ _payload_size = DYNAMIC_PAYLOAD
    /\ log[1].rx[2] = 3 /\ ret_data = <<170, 170, 170>>

(***************************************************************************)
(* C8.  After reading the payload, get_payload clears RX_DR by one STATUS  *)
(* write between chip-enable low and chip-enable high; a data_ready called *)
(* right after it, with the RX FIFO empty and no packet arrived since,     *)
(* returns False.                                                          *)
(***************************************************************************)
C8_Step ==
    /\ op' = "get_payload" =>
           /\ Len(log') >= 4
           /\ IsCe(log'[Len(log') - 2], 0)
           /\ Sends(log'[Len(log') - 1], <<W_REGISTER + STATUS, RX_DR>>)
           /\ IsCe(log'[Len(log')], 1)
           /\ Positions(log', W_REGISTER + STATUS) = {Len(log') - 1}
           /\ \A i \in Positions(log', R_RX_PAYLOAD) : i < Len(log') - 2
           /\ ~Truthy(BitAnd(irq', RX_DR))
    /\ (op = "get_payload" /\ op' = "data_ready" /\ rx_fifo = <<>>) => ret' = "False"

C8_ClearsDataReady == [][C8_Step]_vars

\* get_payload found RX_DR set, read the only packet and cleared the flag.
C8_Witness ==
    /\ op = "get_payload" /\ exc = "none"
    /\ Truthy(BitAnd(log[1].rx[1], RX_DR))
    /\ ret_data # <<>> /\ rx_fifo = <<>> /\ ~Truthy(BitAnd(irq, RX_DR))

(***************************************************************************)
(* C9.  A configuration setter called with an argument outside its range   *)
(* fails before any bus transfer and leaves every cached configuration     *)
(* field as it was.                                                        *)
(***************************************************************************)
OutOfRange(name, a) ==
    \/ name = "set_channel" /\ a \notin 0..125
    \/ name = "set_data_rate" /\ a \notin {RF24_1MBPS, RF24_2MBPS, RF24_250KBPS}
    \/ name = "set_address_bytes" /\ a \notin 3..5
    \/ name = "set_crc_bytes" /\ a \notin 1..2
    \/ name = "set_payload_size" /\ a \notin ACK_PAYLOAD..MAX_PAYLOAD
    \/ name = "set_padding" /\ a \notin 0..255

C9_Step ==
    OutOfRange(op', arg') =>
        /\ exc' # "none"
        /\ log' = <<>>
        /\ UNCHANGED <<_channel, _payload_size, _address_width, _crc_bytes, _padding>>

C9_RejectsOutOfRange == [][C9_Step]_vars

(***************************************************************************)
(* C10.  In dynamic and ack-payload mode send rejects a payload whose      *)
(* length is outside 1..32 and writes nothing to the TX FIFO for it.       *)
(***************************************************************************)
C10_RejectsBadLength ==
    (op = "send" /\ _payload_size < MIN_PAYLOAD
        /\ Len(AsList(data)) \notin MIN_PAYLOAD..MAX_PAYLOAD) =>
        /\ exc # "none"
        /\ Positions(log, W_TX_PAYLOAD) = {}

(***************************************************************************)
(* C11.  Every register write of the driver (an exchange whose opcode is   *)
(* 0x20|addr) is made while chip-enable is low, whatever public methods    *)
(* were called since construction.                                         *)
(***************************************************************************)
\* e is a register write, to any register.
IsAnyRegWrite(e) == e.k = "xfer" /\ e.tx[1] \in W_REGISTER..(2 * W_REGISTER - 1)

C11_WritesWithCeLow ==
    \A i \in 1..Len(log) : IsAnyRegWrite(log[i]) => log[i].v = 0

(***************************************************************************)
(* C12.  data_ready samples the status byte with a no-op and returns True  *)
(* when RX_DR is set in it; otherwise it reads FIFO_STATUS and returns     *)
(* True when the RX-FIFO-empty bit of the answer is clear, False when it   *)
(* is set.  It writes no register, touches chip-enable not at all and      *)
(* changes neither the driver nor the chip.                                *)
(***************************************************************************)
C12_Step ==
    op' = "data_ready" =>
        /\ log' # <<>> /\ Sends(log'[1], <<NOP>>)
        /\ IF Truthy(BitAnd(log'[1].rx[1], RX_DR))
               THEN /\ Len(log') = 1
                    /\ ret' = "True"
               ELSE /\ Len(log') = 2
                    /\ Sends(log'[2], <<FIFO_STATUS, 0>>)
                    /\ ret' = (IF log'[2].rx[2] % 2 = 1 THEN "False" ELSE "True")
        /\ ret' = "False" <=> (~Truthy(BitAnd(irq, RX_DR)) /\ rx_fifo = <<>>)
        /\ \A i \in 1..Len(log') : IsXfer(log'[i]) /\ ~IsAnyRegWrite(log'[i])
        /\ Unchanged2

C12_DataReady == [][C12_Step]_vars

\* data_ready found RX_DR clear and a packet still in the RX FIFO.
C12_Witness ==
    /\ op = "data_ready" /\ ret = "True"
    /\ Len(log) = 2 /\ ~Truthy(BitAnd(log[1].rx[1], RX_DR))
    /\ rx_fifo # <<>>

\* data_ready found RX_DR clear and the RX FIFO empty.
C12_WitnessEmpty ==
    /\ op = "data_ready" /\ ret = "False"
    /\ Len(log) = 2 /\ Truthy(BitAnd(log[2].rx[2], FRX_EMPTY))

(***************************************************************************)
(* C13.  The bits of RF_SETUP other than RF_DR_LOW and RF_DR_HIGH, the RF  *)
(* output power among them, keep the value the chip was found with: the    *)
(* constructor's set_data_rate keeps them, and so does every call after    *)
(* it.                                                                     *)
(***************************************************************************)
\* The bits of the RF_SETUP value v that are not rate bits.
OtherBits(v) == v - ((v \div RF_DR_LOW) % 2) * RF_DR_LOW
                  - ((v \div RF_DR_HIGH) % 2) * RF_DR_HIGH

C13_Constructed ==
    op = "__init__" =>
        \E i \in 1..Len(Starts) :
            /\ _channel = Starts[i].args.channel
            /\ OtherBits(regs[RF_SETUP][1]) = OtherBits(Starts[i].boot.rf_setup)

C13_Step ==
    /\ C13_Constructed
    /\ OtherBits(regs'[RF_SETUP][1]) = OtherBits(regs[RF_SETUP][1])

C13_OtherBitsKept == [][C13_Step]_vars

\* The chip found with RF_SETUP = 0x26 was set to 250 kbps by the constructor
\* and then to 2 Mbps: the power field 0x06 is still there.
C13_Witness ==
    /\ op = "set_data_rate" /\ arg = RF24_2MBPS /\ exc = "none"
    /\ _channel = 1 /\ calls_left = MaxCalls - 1
    /\ log[1].rx[2] = 38 /\ regs[RF_SETUP] = <<14>>

(***************************************************************************)
(* C14.  set_data_rate reads RF_SETUP, clears both rate bits and writes    *)
(* the value back with the bits of the rate set: RF_DR_HIGH alone for      *)
(* 2 Mbps, neither bit for 1 Mbps and, for 250 kbps, the bits given as     *)
(* low_rate.                                                               *)
(***************************************************************************)
\* The two rate bits of the RF_SETUP value v.
RateField(v) == ((v \div RF_DR_LOW) % 2) * RF_DR_LOW
                  + ((v \div RF_DR_HIGH) % 2) * RF_DR_HIGH

ReadModifyWrite(low_rate) ==
    (op = "set_data_rate" /\ ~OutOfRange(op, arg)) =>
        /\ exc = "none"
        /\ Len(log) = 2
        /\ Sends(log[1], <<RF_SETUP, 0>>)
        /\ IsRegWrite(log[2], RF_SETUP) /\ Len(log[2].tx) = 2
        /\ OtherBits(log[2].tx[2]) = OtherBits(log[1].rx[2])
        /\ RateField(log[2].tx[2]) =
               (IF arg = RF24_250KBPS THEN low_rate
                ELSE IF arg = RF24_2MBPS THEN RF_DR_HIGH
                ELSE 0)
        /\ regs[RF_SETUP] = <<log[2].tx[2]>>

\* C14 as claimed: for 250 kbps the pair RF_DR_LOW and RF_DR_HIGH is set.
C14_RateEncoding == ReadModifyWrite(RF_DR_LOW + RF_DR_HIGH)

\* C14 as amended: for 250 kbps RF_DR_LOW alone is set.
C14_RateEncodingLow == ReadModifyWrite(RF_DR_LOW)

\* The chip set to 2 Mbps by the constructor (RF_SETUP 0x0e) was set to
\* 250 kbps: RF_DR_HIGH went, RF_DR_LOW came.
C14_Witness ==
    /\ op = "set_data_rate" /\ arg = RF24_250KBPS /\ exc = "none"
    /\ log[1].rx[2] = 14 /\ regs[RF_SETUP] = <<38>>

(***************************************************************************)
(* C15.  After set_channel(c) with c in 0..125 a read of RF_CH returns c   *)
(* (masked to 7 bits), and the read returns the same after every step that *)
(* is not a successful set_channel.                                        *)
(***************************************************************************)
\* What the chip answers, after the status byte, to a one-byte read of the
\* channel register now.
ReadChannel == Clocked(RegisterContent([regs |-> regs], RF_CH), 1)

C15_Step ==
    /\ (op' = "set_channel" /\ arg' \in 0..125) =>
           /\ exc' = "none"
           /\ ReadChannel' = <<arg' % 128>>
    /\ (op' # "set_channel" \/ exc' # "none") => ReadChannel' = ReadChannel

C15_ChannelRoundTrip == [][C15_Step]_vars

\* Channel 40 was set (no construction uses it), another method ran, and the
\* register still reads 40.
C15_Witness ==
    /\ _channel = 40 /\ op = "set_data_rate" /\ exc = "none"
    /\ ReadChannel = <<40>>

(***************************************************************************)
(* C16.  With address width w and padding byte p, set_local_address and    *)
(* set_remote_address write w bytes to each address register (RX_ADDR_P1;  *)
(* TX_ADDR and RX_ADDR_P0): the first min(len(a), w) bytes of the address  *)
(* a, then w - len(a) copies of p.                                         *)
(***************************************************************************)
C16_AddressWidth ==
    (op \in {"set_local_address", "set_remote_address"} /\ IsByte(_padding)) =>
        /\ exc = "none"
        /\ _address_width \in 3..5
        /\ LET a == FixedFrame(AsList(data), _address_width, _padding)
               written == {i \in 1..Len(log) : IsXfer(log[i])}
               targets == IF op = "set_local_address" THEN {RX_ADDR_P1}
                          ELSE {TX_ADDR, RX_ADDR_P0}
           IN  /\ {log[i].tx[1] : i \in written} = {W_REGISTER + t : t \in targets}
               /\ Cardinality(written) = Cardinality(targets)
               /\ \A i \in written :
                      /\ Len(log[i].tx) = _address_width + 1
                      /\ Tail(log[i].tx) = a
               /\ \A t \in targets : regs[t] = a

\* A two-byte address went to pipe 1 padded to five bytes.
C16_Witness ==
    /\ op = "set_local_address" /\ data = List(<<1, 2>>)
    /\ _address_width = 5 /\ _padding = 32
    /\ regs[RX_ADDR_P1] = <<1, 2, 32, 32, 32>>

\* A six-byte address went to the transmit address cut to three bytes.
C16_WitnessTruncated ==
    /\ op = "set_remote_address" /\ data = List(<<1, 2, 3, 4, 5, 6>>)
    /\ _address_width = 3
    /\ regs[TX_ADDR] = <<1, 2, 3>>

(***************************************************************************)
(* C17.  set_remote_address leaves TX_ADDR and RX_ADDR_P0 with the same    *)
(* contents, no other step writes either register, and so the two stay     *)
(* equal once they are.                                                    *)
(***************************************************************************)
C17_Step ==
    /\ (op' = "set_remote_address" /\ exc' = "none") =>
           /\ regs'[TX_ADDR] = regs'[RX_ADDR_P0]
           /\ regs'[TX_ADDR] = Tail(log'[2].tx)
    /\ op' # "set_remote_address" =>
           /\ UNCHANGED <<regs[TX_ADDR], regs[RX_ADDR_P0]>>
           /\ \A i \in 1..Len(log') :
                  ~IsRegWrite(log'[i], TX_ADDR) /\ ~IsRegWrite(log'[i], RX_ADDR_P0)
    /\ regs[TX_ADDR] = regs[RX_ADDR_P0] => regs'[TX_ADDR] = regs'[RX_ADDR_P0]

C17_RemoteMirrored == [][C17_Step]_vars

\* The remote address was set, the local address after it, and the remote
\* address is still in both registers.
C17_Witness ==
    /\ op = "set_local_address" /\ exc = "none"
    /\ regs[TX_ADDR] = <<1, 2, 32, 32, 32>>
    /\ regs[RX_ADDR_P0] = <<1, 2, 32, 32, 32>>
    /\ regs[RX_ADDR_P1] # regs[TX_ADDR]

(***************************************************************************)
(* C18.  The is_sending that finds TX_DS or MAX_RT set while the           *)
(* transmitting flag is set makes one transition to receiving, which       *)
(* clears the flag and the three status bits.  The flag stays clear until  *)
(* a send or a power_up_tx, and while it is clear is_sending returns False *)
(* without a bus exchange, a line change or any change of state.           *)
(***************************************************************************)
C18_Step ==
    /\ (op' = "is_sending" /\ _power_tx > 0 /\ (irq \div MAX_RT) % 4 # 0) =>
           /\ Len(log') = 5
           /\ Sends(log'[1], <<NOP>>)
           /\ IsPowerUp(Last(log', 4), TRUE)
           /\ transition' = "power_up_rx"
           /\ _power_tx' = 0
           /\ irq' = 0
           /\ ret' = "False"
    /\ (op' = "is_sending" /\ _power_tx = 0) =>
           /\ ret' = "False"
           /\ log' = <<>>
           /\ Unchanged2
    /\ (_power_tx = 0 /\ op' \notin {"send", "power_up_tx"}) => _power_tx' = 0

C18_ConsumedOnce == [][C18_Step]_vars

\* is_sending found MAX_RT set and went back to receiving.
C18_Witness ==
    /\ op = "is_sending" /\ ret = "False" /\ Len(log) = 5
    /\ Truthy(BitAnd(log[1].rx[1], MAX_RT)) /\ ~Truthy(BitAnd(log[1].rx[1], TX_DS))
    /\ _power_tx = 0 /\ irq = 0

\* A later is_sending, after a send, the end of the transmission and the
\* is_sending that saw it: False, and nothing on the bus.
C18_WitnessLater ==
    /\ op = "is_sending" /\ ret = "False" /\ log = <<>>
    /\ transition = "power_up_rx" /\ tx_fifo = 0 /\ irq = 0
    /\ calls_left = MaxTxCalls - 3

(***************************************************************************)
(* C19.  In dynamic and ack-payload mode send writes, after the            *)
(* W_TX_PAYLOAD opcode, exactly the bytes of the payload, for every        *)
(* payload of 1 to 32 bytes.                                               *)
(***************************************************************************)
C19_DynamicUnmodified ==
    (op = "send" /\ _payload_size < MIN_PAYLOAD
        /\ Len(AsList(data)) \in MIN_PAYLOAD..MAX_PAYLOAD) =>
        \E i \in 1..Len(log) :
            /\ Positions(log, W_TX_PAYLOAD) = {i}
            /\ Tail(log[i].tx) = AsList(data)

(***************************************************************************)
(* C20.  A register write of address a with bytes b is the one exchange    *)
(* [0x20 + a] b; a register read of address a and count n is the one       *)
(* exchange [a] followed by n zeros, whose result is the answer without    *)
(* its first byte; a command is one exchange.  Read off the methods that   *)
(* are made of them.                                                       *)
(***************************************************************************)
\* The number of bus exchanges in l.
Exchanges(l) == Cardinality({i \in 1..Len(l) : IsXfer(l[i])})

Zeros(n) == [i \in 1..n |-> 0]

C20_RegisterProtocol ==
    /\ \A i \in 1..Len(log) : IsXfer(log[i]) => Len(log[i].rx) = Len(log[i].tx)
    /\ (op = "set_channel" /\ exc = "none") =>
           /\ Len(log) = 1
           /\ Sends(log[1], <<W_REGISTER + RF_CH, arg>>)
    /\ (op = "set_address_bytes" /\ exc = "none") =>
           /\ Len(log) = 1
           /\ Sends(log[1], <<W_REGISTER + SETUP_AW, arg - 2>>)
    /\ (op = "set_local_address" /\ exc = "none") =>
           /\ Exchanges(log) = 1
           /\ Sends(log[2], <<W_REGISTER + RX_ADDR_P1>> \o regs[RX_ADDR_P1])
           /\ Len(log[2].tx) = 1 + _address_width
    /\ (op = "set_data_rate" /\ exc = "none") =>
           /\ Len(log) = 2
           /\ Sends(log[1], <<RF_SETUP, 0>>)
           /\ IsRegWrite(log[2], RF_SETUP)
           /\ OtherBits(log[2].tx[2]) = OtherBits(log[1].rx[2])
    /\ (op = "data_ready" /\ ret = "False") =>
           /\ Len(log) = 2
           /\ Sends(log[2], <<FIFO_STATUS, 0>>)
           /\ log[2].rx[2] % 2 = 1
    /\ (op = "get_payload" /\ _payload_size >= MIN_PAYLOAD) =>
           /\ Exchanges(log) = 2
           /\ Sends(log[1], <<R_RX_PAYLOAD>> \o Zeros(_payload_size))
           /\ ret_data = Tail(log[1].rx)
           /\ Sends(log[3], <<W_REGISTER + STATUS, RX_DR>>)
    /\ op = "power_down" =>
           /\ Exchanges(log) = 1
           /\ Sends(log[2], <<W_REGISTER + CONFIG, EN_CRC + _crc_bytes>>)
    /\ op \in {"power_up_rx", "power_up_tx"} => Exchanges(log) = 2
    /\ (op = "send" /\ exc = "none") =>
           /\ Sends(log[1], <<NOP>>)
           /\ Exchanges(log) = 4 + Cardinality(Positions(log, FLUSH_TX))
           /\ \A i \in Positions(log, FLUSH_TX) : Sends(log[i], <<FLUSH_TX>>)

\* set_data_rate read RF_SETUP = 0x07 behind a status byte of 0x0e and wrote
\* back what it made of the 0x07.
C20_Witness ==
    /\ op = "set_data_rate" /\ arg = RF24_2MBPS /\ exc = "none"
    /\ log[1].rx = <<14, 7>>
    /\ Sends(log[2], <<W_REGISTER + RF_SETUP, 15>>)

\* A fixed-size read of four bytes: one exchange of five, the last four
\* returned.
C20_WitnessRead ==
    /\ op = "get_payload" /\ _payload_size = 4
    /\ Len(log[1].tx) = 5 /\ ret_data = <<170, 170, 170, 170>>

(***************************************************************************)
(* C21.  When a transport call (a bus exchange or a write of the           *)
(* chip-enable line) fails inside a method, the method makes no further    *)
(* transport call and the failure reaches its caller: the log of the call  *)
(* ends with the call before the failed one and the exception is the       *)
(* transport's.  A method whose k-th transport call is set to fail ends    *)
(* without that exception only if it makes fewer than k calls.             *)
(***************************************************************************)
\* The transport calls of the methods that always make the same number.
TransportCalls(name) ==
    CASE name = "set_channel" -> 1
      [] name = "set_address_bytes" -> 1
      [] name = "set_data_rate" -> 2
      [] name = "power_down" -> 2
      [] name = "set_local_address" -> 3
      [] name = "set_remote_address" -> 4
      [] name = "power_up_tx" -> 4
      [] name = "power_up_rx" -> 4
      [] name = "data_ready" -> 1
      [] name = "send" -> 6
      [] name = "get_payload" -> 4
      [] OTHER -> 0

C21_FailureIsFatal ==
    fail_at # 0 =>
        /\ exc = "TransportFailure" => Len(log) = fail_at - 1
        /\ exc # "TransportFailure" => Len(log) < fail_at
        /\ fail_at <= TransportCalls(op) => exc = "TransportFailure"

\* The second register write of set_remote_address failed: the first is in
\* the log, nothing follows it, chip-enable is still low.
C21_Witness ==
    /\ op = "set_remote_address" /\ fail_at = 3 /\ exc = "TransportFailure"
    /\ Len(log) = 2 /\ IsRegWrite(log[2], TX_ADDR)
    /\ regs[TX_ADDR] # regs[RX_ADDR_P0] /\ ce = 0

\* The write of the chip-enable line that ends power_up_rx failed.
C21_WitnessLine ==
    /\ op = "power_up_rx" /\ fail_at = 4 /\ exc = "TransportFailure"
    /\ Len(log) = 3 /\ ce = 0

(***************************************************************************)
(* C22.  set_local_address, set_remote_address and get_payload leave the   *)
(* chip-enable line at the level it had when the call started, however     *)
(* the call ends.                                                          *)
(***************************************************************************)
C22_Step ==
    op' \in {"set_local_address", "set_remote_address", "get_payload"} => ce' = ce

C22_BracketRestoresLevel == [][C22_Step]_vars

(***************************************************************************)
(* C23.  The transmitting flag is set only if the value last written to    *)
(* CONFIG has PWR_UP set and PRIM_RX clear; after power_down the flag is   *)
(* clear, and is_sending returns False while it is.                        *)
(***************************************************************************)
C23_FlagMatchesConfig ==
    /\ _power_tx > 0 =>
           /\ (regs[CONFIG][1] \div PWR_UP) % 2 = 1
           /\ (regs[CONFIG][1] \div PRIM_RX) % 2 = 0
    /\ (op = "power_down" /\ exc = "none") => _power_tx = 0

(***************************************************************************)
(* C24.  Construction with valid arguments ends receiving: the last CONFIG *)
(* write has PWR_UP and PRIM_RX, chip-enable is high, the transmitting     *)
(* flag is clear.  On the way chip-enable is set low before the first bus  *)
(* exchange, every register write is made with it low, and both FIFOs are  *)
(* flushed after power_down and before chip-enable is first set high.      *)
(***************************************************************************)
\* The positions of l that set chip-enable to level.
LinePositions(l, level) == {i \in 1..Len(l) : IsCe(l[i], level)}

\* The positions of l that write a CONFIG value without PWR_UP: power_down.
PowerDownPositions(l) ==
    {i \in Positions(l, W_REGISTER + CONFIG) : (l[i].tx[2] \div PWR_UP) % 2 = 0}

C24_Construction ==
    op = "__init__" =>
        /\ exc = "none"
        /\ ce = 1 /\ _power_tx = 0
        /\ (regs[CONFIG][1] \div PWR_UP) % 2 = 1
        /\ (regs[CONFIG][1] \div PRIM_RX) % 2 = 1
        /\ IsCe(log[1], 0)
        /\ \A i \in 1..Len(log) : IsAnyRegWrite(log[i]) => log[i].v = 0
        /\ LinePositions(log, 1) = {Len(log)}
        /\ \E pd \in PowerDownPositions(log), fr \in Positions(log, FLUSH_RX),
              ft \in Positions(log, FLUSH_TX) :
               /\ PowerDownPositions(log) = {pd}
               /\ Positions(log, FLUSH_RX) = {fr} /\ Sends(log[fr], <<FLUSH_RX>>)
               /\ Positions(log, FLUSH_TX) = {ft} /\ Sends(log[ft], <<FLUSH_TX>>)
               /\ pd < fr /\ pd < ft
               /\ fr < Len(log) /\ ft < Len(log)
               /\ \A i \in Positions(log, W_REGISTER + CONFIG) : i = pd \/ i > ft

\* The driver constructed on a chip left with chip-enable high, all three
\* interrupt flags set, a full TX FIFO and a packet in the RX FIFO.
C24_Witness ==
    /\ op = "__init__" /\ _address_width = 3
    /\ ce = 1 /\ irq = 0 /\ tx_fifo = 0 /\ rx_fifo = <<>>
    /\ regs[CONFIG] = <<EN_CRC + PWR_UP + PRIM_RX>>

(***************************************************************************)
(* C25.  Every CONFIG write (power_up_rx, power_up_tx and power_down make  *)
(* them) carries EN_CRC and the CRC width set last: CRCO set for two       *)
(* bytes, clear for one.  set_crc_bytes makes no bus exchange and changes  *)
(* no register; nothing else changes the width.                            *)
(***************************************************************************)
\* The CRCO bit for a CRC of n bytes.
WidthBit(n) == IF n = 2 THEN CRCO ELSE 0

\* Every CONFIG write of l carries EN_CRC and the width bit w.
ConfigWritesCarry(l, w) ==
    \A i \in Positions(l, W_REGISTER + CONFIG) :
        /\ Len(l[i].tx) = 2
        /\ (l[i].tx[2] \div EN_CRC) % 2 = 1
        /\ ((l[i].tx[2] \div CRCO) % 2) * CRCO = w

C25_Step ==
    /\ op = "__init__" =>
           \E i \in 1..Len(Starts) :
               /\ _channel = Starts[i].args.channel
               /\ _crc_bytes = WidthBit(Starts[i].args.crc_bytes)
               /\ Positions(log, W_REGISTER + CONFIG) # {}
               /\ ConfigWritesCarry(log, _crc_bytes)
    /\ IF op' = "set_crc_bytes" /\ arg' \in 1..2
           THEN /\ _crc_bytes' = WidthBit(arg')
                /\ log' = <<>>
                /\ regs' = regs
           ELSE _crc_bytes' = _crc_bytes
    /\ ConfigWritesCarry(log', _crc_bytes')
    /\ op' \in {"power_up_rx", "power_up_tx", "power_down"} =>
           Positions(log', W_REGISTER + CONFIG) # {}

C25_CrcInConfig == [][C25_Step]_vars

\* The one-byte CRC was set on a driver constructed with two, and reached
\* the chip with the power_down that followed.
C25_Witness ==
    /\ op = "power_down" /\ exc = "none" /\ _channel = 76
    /\ _crc_bytes = 0 /\ Sends(log[2], <<W_REGISTER + CONFIG, EN_CRC>>)

(***************************************************************************)
(* C26.  With a fixed payload size, RX_PW_P0 and RX_PW_P1 both hold the    *)
(* cached payload size, so get_payload reads as many bytes as the chip is  *)
(* set to receive; only set_payload_size changes the cached size or the    *)
(* two registers.                                                          *)
(***************************************************************************)
WidthsMatch ==
    _payload_size >= MIN_PAYLOAD =>
        /\ regs[RX_PW_P0] = <<_payload_size>>
        /\ regs[RX_PW_P1] = <<_payload_size>>

C26_Step ==
    /\ WidthsMatch /\ WidthsMatch'
    /\ op' # "set_payload_size" =>
           UNCHANGED <<_payload_size, regs[RX_PW_P0], regs[RX_PW_P1]>>
    /\ (op' = "get_payload" /\ _payload_size >= MIN_PAYLOAD) =>
           /\ HasOpcode(log'[1], R_RX_PAYLOAD)
           /\ Len(log'[1].tx) - 1 = regs[RX_PW_P1][1]
           /\ Len(ret_data') = regs[RX_PW_P1][1]

InitPoll == Constructed(MaxPollSends)

Poll ==
    /\ Ran("is_sending", 0, NoData, is_sending(Self))
    /\ UNCHANGED calls_left

\* The packets are lists of integers or bytes, as the time publisher's are.
SendPacket ==
    \E i \in {j \in 1..Len(Payloads) : Payloads[j].kind # "str"} :
        Call("send", 0, Payloads[i], send(Self, Payloads[i]))

NextPoll == SendPacket \/ Poll \/ ChipTxDone \/ ChipMaxRetry

SpecPoll ==
    /\ InitPoll /\ [][NextPoll]_vars
    /\ WF_vars(Poll) /\ WF_vars(ChipTxDone \/ ChipMaxRetry)

(***************************************************************************)
(* C27.  After a send, when the chip reports TX_DS or MAX_RT and the       *)
(* caller keeps polling, is_sending returns False with the driver back in  *)
(* Receiving mode; a step that is not an is_sending call never takes the   *)
(* driver out of Transmitting.                                             *)
(***************************************************************************)
Transmitting == _power_tx > 0 /\ InTxMode

Receiving == _power_tx = 0 /\ InRxMode

C27_Step == (Transmitting /\ op' # "is_sending") => Transmitting'

C27_PollingEnds ==
    /\ (op = "send" /\ exc = "none") ~>
           (op = "is_sending" /\ ret = "False" /\ Receiving)
    /\ [][C27_Step]_vars

\* The poll that saw the report and took the driver back to Receiving.
C27_Witness ==
    /\ op = "is_sending" /\ ret = "False" /\ exc = "none" /\ Receiving
    /\ transition = "power_up_rx" /\ Len(log) > 1
    /\ ~Truthy(BitAnd(irq, BitOr(TX_DS, MAX_RT)))

\* The time publisher's case: packets were sent, the chip reported, nobody
\* polled and the driver is still Transmitting.
C27_WitnessNoPoll ==
    /\ op = "chip_tx_done" /\ calls_left = 0 /\ Transmitting
    /\ Truthy(BitAnd(irq, TX_DS))

(***************************************************************************)
(* The time server: the main thread runs start() and, on SIGTERM and       *)
(* SIGHUP, stop() and reload(); the publishing thread runs _run().  No     *)
(* lock is taken anywhere, so a step of one may follow any step of the     *)
(* other.  NRF24.from_config makes a new connection and a driver on it, or *)
(* raises.                                                                 *)
(***************************************************************************)
\* The transport calls of one send: those of NRF24.send without a flush.
SendCalls == TransportCalls("send")

\* start(): the driver is made, _running is set and the thread is started.
Start ==
    /\ thread.pc = "new" /\ handler = "none"
    /\ connections' = connections + 1
    /\ _nrf' = connections + 1 /\ _pi' = connections + 1
    /\ _running' = TRUE
    /\ thread' = [thread EXCEPT !.pc = "test"]
    /\ UNCHANGED <<stopped, handler, signals_left, nrf24, pidfile>>

\* start() when from_config raises: the thread is never started.
StartFails ==
    /\ thread.pc = "new" /\ handler = "none"
    /\ thread' = [thread EXCEPT !.pc = "never"]
    /\ UNCHANGED <<_running, _pi, _nrf, connections, stopped, handler,
                   signals_left, nrf24, pidfile>>

\* _run: while self._running.
ThreadTest ==
    /\ thread.pc = "test"
    /\ thread' = [thread EXCEPT !.pc = IF _running THEN "due" ELSE "done"]
    /\ UNCHANGED <<_running, _pi, _nrf, connections, stopped, handler,
                   signals_left, nrf24, pidfile>>

\* _run: the delay has not passed, or it has and self._nrf.send is called on
\* the driver that self._nrf names at this moment.
ThreadDue ==
    /\ thread.pc = "due"
    /\ \/ thread' = [thread EXCEPT !.pc = "sleep"]
       \/ thread' = [pc |-> "sending", nrf |-> _nrf, io |-> 0]
    /\ UNCHANGED <<_running, _pi, _nrf, connections, stopped, handler,
                   signals_left, nrf24, pidfile>>

\* One transport call of the running send.  On a stopped connection the call
\* raises and ends the thread, or is lost and the send goes on.
ThreadTransport ==
    /\ thread.pc = "sending" /\ thread.io < SendCalls
    /\ \/ thread' = [thread EXCEPT !.io = @ + 1]
       \/ /\ thread.nrf \in stopped
          /\ thread' = [thread EXCEPT !.io = @ + 1, !.pc = "crashed"]
    /\ UNCHANGED <<_running, _pi, _nrf, connections, stopped, handler,
                   signals_left, nrf24, pidfile>>

\* send returned: published = time.monotonic().
ThreadSent ==
    /\ thread.pc = "sending" /\ thread.io = SendCalls
    /\ thread' = [thread EXCEPT !.pc = "sleep"]
    /\ UNCHANGED <<_running, _pi, _nrf, connections, stopped, handler,
                   signals_left, nrf24, pidfile>>

\* time.sleep(0.5) is over.
ThreadSleep ==
    /\ thread.pc = "sleep"
    /\ thread' = [thread EXCEPT !.pc = "test"]
    /\ UNCHANGED <<_running, _pi, _nrf, connections, stopped, handler,
                   signals_left, nrf24, pidfile>>

\* SIGTERM: stop() stops the connection.
StopConnection ==
    /\ signals_left > 0 /\ handler = "none" /\ _pi # 0
    /\ stopped' = stopped \cup {_pi}
    /\ handler' = "stop" /\ signals_left' = signals_left - 1
    /\ UNCHANGED <<_running, _pi, _nrf, connections, thread, nrf24, pidfile>>

\* stop(), after the notification: self._running = False.
StopRunning ==
    /\ handler = "stop"
    /\ _running' = FALSE /\ handler' = "none"
    /\ UNCHANGED <<_pi, _nrf, connections, stopped, thread, signals_left,
                   nrf24, pidfile>>

\* SIGHUP: reload() stops the current connection.
ReloadConnection ==
    /\ signals_left > 0 /\ handler = "none" /\ _pi # 0
    /\ stopped' = stopped \cup {_pi}
    /\ handler' = "reload" /\ signals_left' = signals_left - 1
    /\ UNCHANGED <<_running, _pi, _nrf, connections, thread, nrf24, pidfile>>

\* reload(), after reading the configuration: the new driver and connection.
ReloadDriver ==
    /\ handler = "reload"
    /\ connections' = connections + 1
    /\ _nrf' = connections + 1 /\ _pi' = connections + 1
    /\ handler' = "none"
    /\ UNCHANGED <<_running, stopped, thread, signals_left, nrf24, pidfile>>

\* reload() when from_config raises: the old driver and connection stay.
ReloadFails ==
    /\ handler = "reload"
    /\ handler' = "none"
    /\ UNCHANGED <<_running, _pi, _nrf, connections, stopped, thread,
                   signals_left, nrf24, pidfile>>

InitServer == NRF24Constructed(0) /\ ServerInit /\ PidInit("absent")

NextServer ==
    \/ Start \/ StartFails
    \/ ThreadTest \/ ThreadDue \/ ThreadTransport \/ ThreadSent \/ ThreadSleep
    \/ StopConnection \/ StopRunning
    \/ ReloadConnection \/ ReloadDriver \/ ReloadFails

SpecServer == InitServer /\ [][NextServer]_vars

(***************************************************************************)
(* C28.  The publishing thread never begins a send on a driver whose       *)
(* connection stop() or reload() has stopped, and never makes a transport  *)
(* call of a running send on one.                                          *)
(***************************************************************************)
C28_Step ==
    /\ (thread.pc = "due" /\ thread'.pc = "sending") => thread'.nrf \notin stopped
    /\ thread'.io > thread.io => thread.nrf \notin stopped

C28_SendsSerialized == [][C28_Step]_vars

(***************************************************************************)
(* The PID file: every daemon process runs PIDFile._acquire when it        *)
(* starts and PIDFile._release when it ends.  The steps of one process are *)
(* its system calls; those of different processes interleave freely.       *)
(***************************************************************************)
\* psutil.process_iter(): the daemon processes that have not exited.
Running == {p \in Procs : procs[p].pc # "exited"}

\* readline().strip() and int(line): the first line's PID, -1 without one.
FirstPid(lines) == IF lines = <<>> THEN -1 ELSE lines[1]

\* Leaving the with block closes the file, which drops its lock.
Closed(p) == [pid_locks EXCEPT ![procs[p].fd] = IF @ = p THEN 0 ELSE @]

\* open(self.path, "a+"): the file at the path, made empty when there is none.
Open(p) ==
    /\ procs[p].pc = "idle"
    /\ IF pid_path = 0
          THEN /\ pid_files' = Append(pid_files, <<>>)
               /\ pid_locks' = Append(pid_locks, 0)
               /\ pid_path' = Len(pid_files) + 1
          ELSE UNCHANGED <<pid_files, pid_locks, pid_path>>
    /\ procs' = [procs EXCEPT ![p] = [pc |-> "opened", fd |-> pid_path', pid |-> -1]]
    /\ UNCHANGED <<nrf24, server>>

\* fcntl.flock(LOCK_EX | LOCK_NB) succeeds.
Lock(p) ==
    /\ procs[p].pc = "opened" /\ pid_locks[procs[p].fd] = 0
    /\ pid_locks' = [pid_locks EXCEPT ![procs[p].fd] = p]
    /\ procs' = [procs EXCEPT ![p].pc = "locked"]
    /\ UNCHANGED <<pid_path, pid_files, nrf24, server>>

\* The lock was held by another process for the whole timeout:
\* PIDFileException.
LockTimeout(p) ==
    /\ procs[p].pc = "opened" /\ pid_locks[procs[p].fd] # 0
    /\ procs' = [procs EXCEPT ![p].pc = "failed"]
    /\ UNCHANGED <<pid_path, pid_files, pid_locks, nrf24, server>>

\* seek(0), readline() and int(line).
ReadPid(p) ==
    /\ procs[p].pc = "locked"
    /\ procs' = [procs EXCEPT ![p].pc = "read",
                              ![p].pid = FirstPid(pid_files[procs[p].fd])]
    /\ UNCHANGED <<pid_path, pid_files, pid_locks, nrf24, server>>

\* The PID that was read is a running process: PIDFileException.
AlreadyRunning(p) ==
    /\ procs[p].pc = "read" /\ procs[p].pid \in Running
    /\ pid_locks' = Closed(p)
    /\ procs' = [procs EXCEPT ![p].pc = "failed"]
    /\ UNCHANGED <<pid_path, pid_files, nrf24, server>>

\* No PID was read or no running process has it: truncate() at the end of
\* what was read, which is the end of the file, then write and flush in
\* append mode, and the end of the with block.
WritePid(p) ==
    /\ procs[p].pc = "read" /\ procs[p].pid \notin Running
    /\ pid_files' = [pid_files EXCEPT ![procs[p].fd] = Append(@, p)]
    /\ pid_locks' = Closed(p)
    /\ procs' = [procs EXCEPT ![p].pc = "acquired"]
    /\ UNCHANGED <<pid_path, nrf24, server>>

\* _release: os.remove(self.path), whatever file the path names by now.
Release(p) ==
    /\ procs[p].pc = "acquired"
    /\ pid_path' = 0
    /\ procs' = [procs EXCEPT ![p].pc = "released"]
    /\ UNCHANGED <<pid_files, pid_locks, nrf24, server>>

\* The process ends: after the exception, after the release, or killed
\* while it holds the PID file.
Exit(p) ==
    /\ procs[p].pc \in {"failed", "released", "acquired"}
    /\ procs' = [procs EXCEPT ![p].pc = "exited"]
    /\ UNCHANGED <<pid_path, pid_files, pid_locks, nrf24, server>>

InitPid ==
    /\ NRF24Constructed(0) /\ ServerInit
    /\ \E i \in 1..Len(Contents) : PidInit(Contents[i])

NextPid ==
    \E p \in Procs :
        \/ Open(p) \/ Lock(p) \/ LockTimeout(p) \/ ReadPid(p)
        \/ AlreadyRunning(p) \/ WritePid(p) \/ Release(p) \/ Exit(p)

SpecPid == InitPid /\ [][NextPid]_vars

(***************************************************************************)
(* C29.  No two running processes hold the PID file at once, and the       *)
(* first line of the file a process acquired is that process's PID.        *)
(***************************************************************************)
Holds(p) == procs[p].pc = "acquired"

OneHolder == \A p, q \in Procs : (Holds(p) /\ Holds(q)) => p = q

FirstLineIsHolder ==
    \A p \in Procs : Holds(p) => FirstPid(pid_files[procs[p].fd]) = p

C29_Exclusive == OneHolder /\ FirstLineIsHolder

=============================================================================
